---------------------------- MODULE Spec2Model ----------------------------
(***************************************************************************)
(* A model of the audio-to-score conversion pipeline:                      *)
(*   - writeVarLength / createMidiFile  (src/src/pages/Index.tsx)          *)
(*   - processAudio / calculateTempo / consolidateNotes                    *)
(*                                      (src/public/audio-worker.js)       *)
(*   - detectPitchFromBuffer / detectTempo (src/src/pages/Index.tsx)       *)
(*                                                                         *)
(* Numbers.  TLC has integers only, so every JavaScript number is kept as  *)
(* an exact rational with a fixed denominator:                             *)
(*   - note times and durations handed to createMidiFile are integers in   *)
(*     units of 1/UnitsPerSecond second (half a MIDI tick), so that        *)
(*     Math.round really rounds;                                           *)
(*   - 32-bit shifts and masks are integer division and remainder, valid   *)
(*     for 0 <= value < 2^31;                                              *)
(*   - inside a conversion a time is a whole number of samples (seconds    *)
(*     times sampleRate), and a comparison with a constant in seconds is   *)
(*     the same comparison multiplied out: t < 0.2 is 5 * t < sampleRate;  *)
(*   - a sample is a whole number of hundredths of full scale, and a       *)
(*     comparison of an RMS energy is the comparison of the squares:       *)
(*     sqrt(sum / n) / 100 > 0.015 is 4 * sum > 9 * n.                     *)
(* The sample buffer is a sequence of segments [n, amp, freq]: n samples   *)
(* of magnitude amp whose fundamental is freq Hz (0: none).  The pitch     *)
(* estimators and the spectrum are not computed: on a frame that one       *)
(* segment fills, the estimator returns that segment's freq; on a frame    *)
(* that straddles segments it returns what the input `straddle` says.      *)
(*                                                                         *)
(* Specifications: SpecVLQ (writeVarLength alone), SpecMidi                *)
(* (createMidiFile), SpecConv (one conversion, worker or main thread) and  *)
(* SpecBuilder (the consolidation alone, on detections in any order).      *)
(***************************************************************************)
EXTENDS Integers, Sequences, FiniteSets, TLC

VARIABLES
    \* ---- writeVarLength called on its own
    vlqPc,          \* "call" | "done" | "idle"
    vlqValue,       \* the value argument
    vlqBefore,      \* the events array before the call
    vlqEvents,      \* the events array after the call
    \* ---- createMidiFile
    midiPc,         \* "idle" | "start" | "forEach" | "done"
    midiData,       \* the notes argument
    sortedNotes,    \* const sortedNotes
    noteIdx,        \* position of forEach in sortedNotes
    enc,            \* [events, currentTime, noteOffs, log]: the encoder's locals
    midiResult,     \* the returned Uint8Array, as a sequence of bytes
    midiGiven,      \* the notes argument as the caller built it
    midiFirst,      \* the bytes an earlier call on the same list returned
    \* ---- one conversion: processAudio (worker) or detectPitchFromBuffer (main)
    variant,        \* "worker" | "main" | "none"
    audioData,      \* the sample buffer, as a sequence of segments
    sampleRate,     \* samples per second
    straddle,       \* what the pitch estimator reports on a frame that straddles
    fluxSpikes,     \* where the spectral flux has its transients: <<>> or <<first, step>>
    convPc,         \* "idle" | "tempo" | "frames" | "yield" | "notesReady" | "consolidate" | "done" | "threw"
    frameI,         \* the frame loop's index i
    chunk,          \* the chunk loop's index (main)
    detected,       \* the raw frame detections (notes / detectedNotes)
    onsets,         \* the onset times found so far
    visited,        \* the start indices of the frames the frame loop has analysed
    consState,      \* consolidation: [consolidated, currentNote]
    consIdx,        \* consolidation: the position of its loop in the detections
    tempo,          \* the tempo, once computed
    convResult,     \* the value returned: [notes, tempo]
    \* ---- processAudioWithWorker and the worker's onmessage
    request,        \* the message the caller builds: [audioData, sampleRate]
    workerInbox,    \* messages posted to the worker, not yet handled
    posted,         \* every message the worker has posted, in order
    callerInbox,    \* messages posted to the caller, not yet handled
    promise,        \* [state, result, error]: the promise processAudioWithWorker returns
    settleCalls,    \* the number of calls of resolve and reject
    workerStatus,   \* "none" | "created" | "running" | "finished" | "terminated"
    \* ---- handleFileUpload and the state of the page
    uploadPc,       \* "idle" | "start" | "decoding" | "awaiting" | "done"
    pageState,      \* [midiData, detectedTempo, isProcessing]: the useState values
    pageBefore,     \* pageState when handleFileUpload was called
    uploadOutcome,  \* "none" | "succeeded" | "failed"
    \* ---- detectPitchYIN called on one frame
    yinPc,          \* "idle" | "allocate" | "difference" | "normalize" | "threshold" | "done" | "threw"
    yinFrame,       \* the buffer argument: [length, samples]
    yinRate,        \* the sampleRate argument
    yinTau,         \* the loop variable tau of the loop under way
    yinBuffer,      \* the Float32Array yinBuffer, as a function on 0..maxPeriod
    runningSum,     \* the local runningSum
    yinResult       \* the value returned

vars == <<vlqPc, vlqValue, vlqBefore, vlqEvents,
          midiPc, midiData, sortedNotes, noteIdx, enc, midiResult, midiGiven, midiFirst,
          variant, audioData, sampleRate, straddle, fluxSpikes, convPc, frameI, chunk,
          detected, onsets, visited, consState, consIdx, tempo, convResult,
          request, workerInbox, posted, callerInbox, promise, settleCalls, workerStatus,
          uploadPc, pageState, pageBefore, uploadOutcome,
          yinPc, yinFrame, yinRate, yinTau, yinBuffer, runningSum, yinResult>>

vlqVars == <<vlqPc, vlqValue, vlqBefore, vlqEvents>>
midiVars == <<midiPc, midiData, sortedNotes, noteIdx, enc, midiResult, midiGiven, midiFirst>>
convInputs == <<variant, audioData, sampleRate, straddle, fluxSpikes>>
convVars == <<variant, audioData, sampleRate, straddle, fluxSpikes, convPc, frameI, chunk,
              detected, onsets, visited, consState, consIdx, tempo, convResult>>
protoVars == <<request, workerInbox, posted, callerInbox, promise, settleCalls, workerStatus>>
uploadVars == <<uploadPc, pageState, pageBefore, uploadOutcome>>
yinVars == <<yinPc, yinFrame, yinRate, yinTau, yinBuffer, runningSum, yinResult>>

-----------------------------------------------------------------------------
(* Generic helpers *)

RECURSIVE SeqSum(_)
SeqSum(s) ==
    IF s = <<>> THEN 0 ELSE Head(s) + SeqSum(Tail(s))

\* Math.round(num / den) for den > 0: the nearest integer, halves rounded up.
MathRound(num, den) ==
    (2 * num + den) \div (2 * den)

\* value >> k  for 0 <= value < 2^31
Shr(value, k) ==
    value \div (2 ^ k)

\* value & 0x7F
And7F(value) ==
    value % 128

\* value & 0xFF
AndFF(value) ==
    value % 256

\* value | 0x80
Or80(value) ==
    IF (value \div 128) % 2 = 1 THEN value ELSE value + 128

\* The element conversion of new Uint8Array(numbers): modulo 2^8.
ToUint8(value) ==
    value % 256

Uint8Array(numbers) ==
    [i \in 1..Len(numbers) |-> ToUint8(numbers[i])]

-----------------------------------------------------------------------------
(* writeVarLength *)

\* The boundary between 1 and 2 bytes taken as <= instead of <.
writeVarLength_offByOne(events, value) ==
    IF value <= 128 THEN Append(events, value)
    ELSE IF value < 16384 THEN
        events \o <<Or80(Shr(value, 7)), And7F(value)>>
    ELSE IF value < 2097152 THEN
        events \o <<Or80(Shr(value, 14)), Or80(And7F(Shr(value, 7))), And7F(value)>>
    ELSE
        events \o <<Or80(Shr(value, 21)), Or80(And7F(Shr(value, 14))),
                    Or80(And7F(Shr(value, 7))), And7F(value)>>

\* The middle bytes written without their & 0x7F mask.
writeVarLength_noMask(events, value) ==
    IF value < 128 THEN Append(events, value)
    ELSE IF value < 16384 THEN
        events \o <<Or80(Shr(value, 7)), And7F(value)>>
    ELSE IF value < 2097152 THEN
        events \o <<Or80(Shr(value, 14)), Or80(Shr(value, 7)), And7F(value)>>
    ELSE
        events \o <<Or80(Shr(value, 21)), Or80(Shr(value, 14)),
                    Or80(Shr(value, 7)), And7F(value)>>

writeVarLength(events, value) ==
    IF value < 128 THEN Append(events, value)
    ELSE IF value < 16384 THEN
        events \o <<Or80(Shr(value, 7)), And7F(value)>>
    ELSE IF value < 2097152 THEN
        events \o <<Or80(Shr(value, 14)), Or80(And7F(Shr(value, 7))), And7F(value)>>
    ELSE
        events \o <<Or80(Shr(value, 21)), Or80(And7F(Shr(value, 14))),
                    Or80(And7F(Shr(value, 7))), And7F(value)>>

\* The standard variable-length-quantity decoder: the low 7 bits of each byte,
\* concatenated big-endian.
RECURSIVE VLQDecodeFrom(_, _)
VLQDecodeFrom(acc, bytes) ==
    IF bytes = <<>> THEN acc
    ELSE VLQDecodeFrom(acc * 128 + (Head(bytes) % 128), Tail(bytes))

VLQDecode(bytes) ==
    VLQDecodeFrom(0, bytes)

\* How far around each length boundary 2^7, 2^14, 2^21, 2^28 the inputs range.
VLQWindow == 3

VLQBoundaries == {128, 16384, 2097152, 268435456}

VLQDigits == {0, 1, 64, 127}

\* The values writeVarLength is called with: the small values, a window around
\* every length boundary, every combination of the four 7-bit digits drawn
\* from VLQDigits, and values past the 4-byte ceiling.
VLQInputs ==
    (0..VLQWindow)
    \cup UNION {(b - VLQWindow)..(b + VLQWindow) : b \in VLQBoundaries}
    \cup {a * 2097152 + b * 16384 + c * 128 + d :
            a \in VLQDigits, b \in VLQDigits, c \in VLQDigits, d \in VLQDigits}
    \cup {288000000, 536870912, 1073741824}

VLQPrefixes == {<<>>, <<144, 60, 100>>}

-----------------------------------------------------------------------------
(* createMidiFile *)

ticksPerQuarter == 480

\* Note times are integers in units of 1/UnitsPerSecond second: half a tick.
UnitsPerSecond == 2 * ticksPerQuarter

\* Math.round((t - currentTime) * ticksPerQuarter)
deltaTicks(t, currentTime) ==
    MathRound((t - currentTime) * ticksPerQuarter, UnitsPerSecond)

RECURSIVE insertByTime(_, _)
insertByTime(sorted, x) ==
    IF sorted = <<>> THEN <<x>>
    ELSE IF x.time < Head(sorted).time THEN <<x>> \o sorted
    ELSE <<Head(sorted)>> \o insertByTime(Tail(sorted), x)

\* Array.prototype.sort((a, b) => a.time - b.time): a stable sort by time.
RECURSIVE sortByTimeFrom(_, _)
sortByTimeFrom(sorted, rest) ==
    IF rest = <<>> THEN sorted
    ELSE sortByTimeFrom(insertByTime(sorted, Head(rest)), Tail(rest))

sortByTime(s) ==
    sortByTimeFrom(<<>>, s)

\* The copy left in the order it was given.
\* The argument sorted in place: notes.sort(...) with no copy.
notesAfterCopy_sortedInPlace(notes) ==
    sortByTime(notes)

\* The argument after const sortedNotes = [...notes].sort(...): the spread
\* copies, so the caller's array is as it was.
notesAfterCopy(notes) ==
    notes

sortNotes_unsorted(notes) ==
    notes

\* const sortedNotes = [...notes].sort((a, b) => a.time - b.time)
sortNotes(notes) ==
    sortByTime(notes)

header ==
    <<77, 84, 104, 100,  0, 0, 0, 6,  0, 0,  0, 1,
      AndFF(Shr(ticksPerQuarter, 8)), AndFF(ticksPerQuarter)>>

\* events = [], currentTime = 0, noteOffs = []; log records every delta-time
\* handed to writeVarLength together with the event written after it.
encInit ==
    [events |-> <<>>, currentTime |-> 0, noteOffs |-> <<>>, log |-> <<>>]

\* One pass of either note-off loop: shift the first pending note-off and write it.
emitNoteOff(st) ==
    LET noteOff == Head(st.noteOffs)
        deltaTime == deltaTicks(noteOff.time, st.currentTime)
    IN  [events |-> writeVarLength(st.events, deltaTime) \o <<128, noteOff.pitch, 64>>,
         currentTime |-> noteOff.time,
         noteOffs |-> Tail(st.noteOffs),
         log |-> Append(st.log, [kind |-> "off", time |-> noteOff.time,
                                 pitch |-> noteOff.pitch, delta |-> deltaTime])]

\* The first loop with noteOffs[0].time < noteOnTime.
RECURSIVE flushDue_strict(_, _)
flushDue_strict(st, noteOnTime) ==
    IF st.noteOffs # <<>> /\ Head(st.noteOffs).time < noteOnTime
    THEN flushDue_strict(emitNoteOff(st), noteOnTime)
    ELSE st

\* while (noteOffs.length > 0 && noteOffs[0].time <= noteOnTime)
RECURSIVE flushDue(_, _)
flushDue(st, noteOnTime) ==
    IF st.noteOffs # <<>> /\ Head(st.noteOffs).time <= noteOnTime
    THEN flushDue(emitNoteOff(st), noteOnTime)
    ELSE st

\* while (noteOffs.length > 0)
RECURSIVE flushAll(_)
flushAll(st) ==
    IF st.noteOffs # <<>> THEN flushAll(emitNoteOff(st)) ELSE st

emitNoteOn(st, note) ==
    LET deltaTime == deltaTicks(note.time, st.currentTime)
    IN  [st EXCEPT
            !.events = writeVarLength(st.events, deltaTime)
                          \o <<144, note.pitch, note.velocity>>,
            !.currentTime = note.time,
            !.log = Append(st.log, [kind |-> "on", time |-> note.time,
                                    pitch |-> note.pitch, delta |-> deltaTime])]

\* The note-off pushed and the queue left unsorted.
scheduleNoteOff_noSort(st, note) ==
    [st EXCEPT !.noteOffs =
        Append(st.noteOffs, [time |-> note.time + note.duration, pitch |-> note.pitch])]

\* noteOffs.push({time: noteOffTime, pitch}); noteOffs.sort(by time)
scheduleNoteOff(st, note) ==
    [st EXCEPT !.noteOffs =
        sortByTime(Append(st.noteOffs,
                          [time |-> note.time + note.duration, pitch |-> note.pitch]))]

\* The body of sortedNotes.forEach
forEachNote(st, note) ==
    scheduleNoteOff(emitNoteOn(flushDue(st, note.time), note), note)

RECURSIVE forEachFrom(_, _)
forEachFrom(st, notes) ==
    IF notes = <<>> THEN st
    ELSE forEachFrom(forEachNote(st, Head(notes)), Tail(notes))

\* The end of track pushed with the remaining note-offs left in the queue.
endOfTrack_noFlush(st) ==
    [st EXCEPT !.events = st.events \o <<0, 255, 47, 0>>]

\* The remaining note-offs, then events.push(0x00, 0xFF, 0x2F, 0x00)
endOfTrack(st) ==
    LET flushed == flushAll(st)
    IN  [flushed EXCEPT !.events = flushed.events \o <<0, 255, 47, 0>>]

\* The length field counting the 8 bytes of the chunk header as well.
trackChunk_lengthWithHeader(events) ==
    LET trackData == Uint8Array(events)
        trackLength == Len(trackData) + 8
    IN  <<77, 84, 114, 107>>
        \o <<AndFF(Shr(trackLength, 24)), AndFF(Shr(trackLength, 16)),
             AndFF(Shr(trackLength, 8)), AndFF(trackLength)>>
        \o trackData

\* "MTrk", the 4-byte big-endian trackLength, trackData
trackChunk(events) ==
    LET trackData == Uint8Array(events)
        trackLength == Len(trackData)
    IN  <<77, 84, 114, 107>>
        \o <<AndFF(Shr(trackLength, 24)), AndFF(Shr(trackLength, 16)),
             AndFF(Shr(trackLength, 8)), AndFF(trackLength)>>
        \o trackData

\* createMidiFile as one function of its argument.
createMidiFile(notes) ==
    header \o trackChunk(endOfTrack(forEachFrom(encInit, sortNotes(notes))).events)

\* The longest note list handed to createMidiFile.
MaxNotes == 3

OnsetChoices == {0, 1, 960}

DurationChoices == {0, 480, 1500}

PitchChoices == {60, 61}

VelocityChoices == {100}

NoteChoices ==
    [time : OnsetChoices, pitch : PitchChoices,
     duration : DurationChoices, velocity : VelocityChoices]

NoteLists ==
    UNION {[1..n -> NoteChoices] : n \in 0..MaxNotes}

-----------------------------------------------------------------------------
(* The sample buffer and the quantities read from it *)

Min(a, b) == IF a < b THEN a ELSE b

Max(a, b) == IF a > b THEN a ELSE b

Abs(a) == IF a < 0 THEN -a ELSE a

SetMin(S) ==
    CHOOSE x \in S : \A y \in S : x <= y

SetMax(S) ==
    CHOOSE x \in S : \A y \in S : x >= y

\* audioData.length
RECURSIVE bufferLength(_)
bufferLength(data) ==
    IF data = <<>> THEN 0 ELSE Head(data).n + bufferLength(Tail(data))

\* The sum of squares of the samples from..to-1, in units of 1/10000: what the
\* loop of getRMS accumulates over audioData.slice(from, to).
RECURSIVE sumSquaresFrom(_, _, _, _)
sumSquaresFrom(segs, offset, from, to) ==
    IF segs = <<>> THEN 0
    ELSE LET s == Head(segs)
             lo == Max(from, offset)
             hi == Min(to, offset + s.n)
             overlap == IF hi > lo THEN hi - lo ELSE 0
         IN  overlap * s.amp * s.amp
               + sumSquaresFrom(Tail(segs), offset + s.n, from, to)

sumSquares(data, from, to) ==
    sumSquaresFrom(data, 0, from, to)

\* The position in data of the segment that holds sample k.
RECURSIVE segmentIndexFrom(_, _, _, _)
segmentIndexFrom(data, idx, offset, k) ==
    IF idx >= Len(data) \/ k < offset + data[idx].n THEN idx
    ELSE segmentIndexFrom(data, idx + 1, offset + data[idx].n, k)

segmentIndex(data, k) ==
    segmentIndexFrom(data, 1, 0, k)

\* The frequency a pitch estimator returns for the frame i .. i+w-1: the
\* fundamental of the segment that fills the frame; on a frame that straddles
\* segments, nothing, the fundamental at its first sample or at its last one.
estimatePitch(data, i, w, policy) ==
    LET first == segmentIndex(data, i)
        last == segmentIndex(data, i + w - 1)
    IN  IF first = last THEN data[first].freq
        ELSE IF policy = "first" THEN data[first].freq
        ELSE IF policy = "last" THEN data[last].freq
        ELSE 0

\* The largest sample magnitude in the frame i .. i+w-1.
frameAmp(data, i, w) ==
    SetMax({data[k].amp : k \in segmentIndex(data, i)..segmentIndex(data, i + w - 1)})

\* 12 * Math.log2(frequency / 440) + 69 in hundredths of a semitone, rounded
\* down, for the frequencies the estimators return here.
midiCents(frequency) ==
    CASE frequency = 65 -> 3589
      [] frequency = 66 -> 3615
      [] frequency = 415 -> 6798
      [] frequency = 440 -> 6900
      [] frequency = 466 -> 6999
      [] frequency = 494 -> 7100
      [] frequency = 2000 -> 9521
      [] frequency = 2100 -> 9605
      [] frequency = 2170 -> 9662
      [] frequency = 30000 -> 14209

\* sqrt(sum / n) / 100 > 0.015
energyOver015(sum, n) ==
    4 * sum > 9 * n

\* sqrt(sum / n) / 100 > 0.02
energyOver02(sum, n) ==
    sum > 4 * n

\* sqrt(cur / n) > sqrt(prev / n) * 1.3
energyRise(cur, prev) ==
    100 * cur > 169 * prev

\* Math.floor(sqrt(sum / n) / 100 * k) for k = 150 or 200: the largest v with
\* (100 v)^2 n <= k^2 sum, both sides divided by 50^2.
floorEnergyTimes(sum, n, k) ==
    LET fits(v) == 4 * v * v * n <= (k \div 50) * (k \div 50) * sum
    IN  CHOOSE v \in 0..k : fits(v) /\ (v = k \/ ~fits(v + 1))

\* intervals.sort((a, b) => a - b)
sortNumbers(s) ==
    SortSeq(s, LAMBDA a, b : a < b)

\* The detections left in the order they came in.
sortDetections_unsorted(s) ==
    s

\* notes.sort((a, b) => a.time - b.time) on the frame detections
sortDetections(s) ==
    SortSeq(s, LAMBDA a, b : a.time < b.time)

\* onsets[i] - onsets[i - 1] for i = 1 .. length - 1
interOnset(onsetSeq) ==
    [i \in 1..(Len(onsetSeq) - 1) |-> onsetSeq[i + 1] - onsetSeq[i]]

\* Math.round(60 / interval) with neither bound applied.
clampedBpm_noClamp(interval, rate) ==
    MathRound(60 * rate, interval)

\* Math.round(Math.max(60, Math.min(180, 60 / interval))), interval in samples
clampedBpm(interval, rate) ==
    IF 60 * rate >= 180 * interval THEN 180
    ELSE IF 60 * rate <= 60 * interval THEN 60
    ELSE MathRound(60 * rate, interval)

-----------------------------------------------------------------------------
(* The worker: processAudio, calculateTempo, consolidateNotes *)

workerWindowSize == 1024

workerHopSize == 256

defaultTempo == 120

\* Math.min(127, Math.max(30, Math.floor(currentEnergy * 150))) with no upper clamp
workerVelocity_noMin(sum) ==
    Max(30, floorEnergyTimes(sum, workerWindowSize, 150))

\* Math.min(127, Math.max(30, Math.floor(currentEnergy * 150)))
workerVelocity(sum) ==
    Min(127, Max(30, floorEnergyTimes(sum, workerWindowSize, 150)))

\* detectPitchYIN(currentWindow, ...): any frequency, 0 for none; the parabolic
\* interpolation can also leave the 80..2000 Hz band or turn negative.
\* With maxPeriod = Math.floor(sampleRate / 80) below 1 no tau passes the
\* threshold and the result is 0.
detectPitchYIN(data, rate, i, policy) ==
    IF rate \div 80 < 1 THEN 0
    ELSE estimatePitch(data, i, workerWindowSize, policy)

\* new Float32Array(maxPeriod + 1) throws a RangeError for a negative length;
\* detectPitchYIN is reached on the frames with currentEnergy > 0.015.
workerThrows(data, rate, i) ==
    /\ energyOver015(sumSquares(data, i, i + workerWindowSize), workerWindowSize)
    /\ (rate \div 80) + 1 < 0

\* The notes one pass of the frame loop pushes: none or one.
workerDetection(data, rate, policy, i) ==
    LET currentEnergy == sumSquares(data, i, i + workerWindowSize)
        pitch == detectPitchYIN(data, rate, i, policy)
    IN  IF energyOver015(currentEnergy, workerWindowSize) /\ pitch > 0
        THEN LET midiNote == midiCents(pitch)
             IN  IF midiNote >= 3600 /\ midiNote <= 9600
                 THEN <<[time |-> i,
                         pitch |-> MathRound(midiNote, 100),
                         duration |-> workerHopSize,
                         velocity |-> workerVelocity(currentEnergy)]>>
                 ELSE <<>>
        ELSE <<>>

\* The onsets one pass of the frame loop pushes: none or one.
workerOnset(data, i) ==
    LET currentEnergy == sumSquares(data, i, i + workerWindowSize)
        prevEnergy == sumSquares(data, i - workerWindowSize, i)
    IN  IF energyRise(currentEnergy, prevEnergy)
           /\ energyOver02(currentEnergy, workerWindowSize)
        THEN <<i>>
        ELSE <<>>

\* The default returned as 100.
calculateTempo_default100(onsetSeq, rate) ==
    IF Len(onsetSeq) < 3 THEN 100
    ELSE LET all == interOnset(onsetSeq)
             intervals == IF rate <= 0 THEN <<>>
                          ELSE SelectSeq(all, LAMBDA d : 5 * d > rate /\ d < 3 * rate)
         IN  IF intervals = <<>> THEN 100
             ELSE clampedBpm(sortNumbers(intervals)[(Len(intervals) \div 2) + 1], rate)

\* An onset time is i / sampleRate: with sampleRate <= 0 no interval is inside
\* (0.2, 3.0) (negative, or NaN for Infinity - Infinity).
calculateTempo(onsetSeq, rate) ==
    IF Len(onsetSeq) < 3 THEN defaultTempo
    ELSE LET all == interOnset(onsetSeq)
             intervals == IF rate <= 0 THEN <<>>
                          ELSE SelectSeq(all, LAMBDA d : 5 * d > rate /\ d < 3 * rate)
         IN  IF intervals = <<>> THEN defaultTempo
             ELSE clampedBpm(sortNumbers(intervals)[(Len(intervals) \div 2) + 1], rate)

\* The loop body with the extended note made to end one detection too late.
consolidateStep_lateEnd(acc, note, rate) ==
    LET currentNote == acc.currentNote
    IN  IF Abs(currentNote.pitch - note.pitch) <= 1
           /\ 5 * (note.time - currentNote.time) < rate
        THEN [acc EXCEPT
                !.currentNote.duration = note.time + 2 * note.duration - currentNote.time,
                !.currentNote.velocity = Max(currentNote.velocity, note.velocity)]
        ELSE [consolidated |->
                  IF 20 * currentNote.duration >= rate
                  THEN Append(acc.consolidated, currentNote)
                  ELSE acc.consolidated,
              currentNote |-> note]

\* One pass of the loop of consolidateNotes over acc = [consolidated, currentNote].
consolidateStep(acc, note, rate) ==
    LET currentNote == acc.currentNote
    IN  IF Abs(currentNote.pitch - note.pitch) <= 1
           /\ 5 * (note.time - currentNote.time) < rate
        THEN [acc EXCEPT
                !.currentNote.duration = note.time + note.duration - currentNote.time,
                !.currentNote.velocity = Max(currentNote.velocity, note.velocity)]
        ELSE [consolidated |->
                  IF 20 * currentNote.duration >= rate
                  THEN Append(acc.consolidated, currentNote)
                  ELSE acc.consolidated,
              currentNote |-> note]

\* The accumulator before the loop: let currentNote = { ...notes[0] }
consolidateStart(sorted) ==
    [consolidated |-> <<>>, currentNote |-> sorted[1]]

\* consolidateNotes with the last note pushed whatever its duration.
consolidateFinish_noFilter(acc, rate) ==
    Append(acc.consolidated, acc.currentNote)

\* After the loop: the last note, if long enough; return consolidated
consolidateFinish(acc, rate) ==
    IF 20 * acc.currentNote.duration >= rate
    THEN Append(acc.consolidated, acc.currentNote)
    ELSE acc.consolidated

-----------------------------------------------------------------------------
(* The main thread: detectPitchFromBuffer and its detectTempo *)

mainWindowSize == 4096

mainHopSize == 1024

chunkCount == 20

tempoFrameSize == 2048

tempoHopSize == 512

\* The number of passes of for (i = 0; i < data.length - frameSize; i += hopSize)
tempoFrameCount(len) ==
    IF len > tempoFrameSize
    THEN ((len - tempoFrameSize - 1) \div tempoHopSize) + 1
    ELSE 0

\* The spectral flux array.  The spectrum is not computed: the flux into a
\* frame of zeros is 0 (its spectrum is 0), into any other frame it is 1, or 4
\* where the input `spikes` = <<first, step>> puts a transient.
spectralFluxOf(data, spikes) ==
    [j \in 1..(tempoFrameCount(bufferLength(data)) - 1) |->
        IF sumSquares(data, j * tempoHopSize, j * tempoHopSize + tempoFrameSize) = 0
        THEN 0
        ELSE IF spikes # <<>> /\ j >= spikes[1] /\ (j - spikes[1]) % spikes[2] = 0
        THEN 4
        ELSE 1]

\* Math.max(...spectralFlux) for a flux that is not empty
SeqMax(s) ==
    CHOOSE m \in {s[k] : k \in 1..Len(s)} : \A k \in 1..Len(s) : s[k] <= m

\* The peaks of the flux above 0.3 of its maximum, as times in samples.
fluxOnsets(flux) ==
    IF Len(flux) < 3 THEN <<>>
    ELSE LET top == SeqMax(flux)
             isPeak(j) == /\ j >= 2
                          /\ j <= Len(flux) - 1
                          /\ 10 * flux[j] > 3 * top
                          /\ flux[j] > flux[j - 1]
                          /\ flux[j] > flux[j + 1]
             peaks == SelectSeq([j \in 1..Len(flux) |-> j], isPeak)
         IN  [k \in 1..Len(peaks) |-> (peaks[k] - 1) * tempoHopSize]

\* The position of the first cluster whose first interval is within 0.1 s, or 0.
RECURSIVE clusterFor(_, _, _, _)
clusterFor(clusters, k, interval, rate) ==
    IF k > Len(clusters) THEN 0
    ELSE IF 10 * Abs(clusters[k][1] - interval) < rate THEN k
    ELSE clusterFor(clusters, k + 1, interval, rate)

RECURSIVE clustersFrom(_, _, _)
clustersFrom(clusters, rest, rate) ==
    IF rest = <<>> THEN clusters
    ELSE LET interval == Head(rest)
             k == clusterFor(clusters, 1, interval, rate)
         IN  clustersFrom(IF k = 0 THEN Append(clusters, <<interval>>)
                          ELSE [clusters EXCEPT ![k] = Append(@, interval)],
                          Tail(rest), rate)

\* clusters.reduce((max, cluster) => cluster.length > max.length ? cluster : max, [])
RECURSIVE largestFrom(_, _)
largestFrom(best, rest) ==
    IF rest = <<>> THEN best
    ELSE largestFrom(IF Len(Head(rest)) > Len(best) THEN Head(rest) ELSE best, Tail(rest))

\* Math.round(Math.max(60, Math.min(180, 60 / (sum / count)))), sum in samples
clampedBpmOfMean(sum, count, rate) ==
    IF 60 * rate * count >= 180 * sum THEN 180
    ELSE IF 60 * rate * count <= 60 * sum THEN 60
    ELSE MathRound(60 * rate * count, sum)

detectTempo(data, spikes, rate) ==
    LET onsetSeq == fluxOnsets(spectralFluxOf(data, spikes))
    IN  IF Len(onsetSeq) < 3 THEN defaultTempo
        ELSE LET all == interOnset(onsetSeq)
                 intervals == SelectSeq(all, LAMBDA d : 5 * d > rate /\ d < 2 * rate)
             IN  IF intervals = <<>> THEN defaultTempo
                 ELSE LET largestCluster ==
                              largestFrom(<<>>, clustersFrom(<<>>, sortNumbers(intervals), rate))
                      IN  clampedBpmOfMean(SeqSum(largestCluster), Len(largestCluster), rate)

\* const processChunkSize = Math.floor(channelData.length / 20)
processChunkSize(data) ==
    bufferLength(data) \div chunkCount

chunkStart(data, c) ==
    c * processChunkSize(data)

chunkEnd(data, c) ==
    Min(chunkStart(data, c) + processChunkSize(data), bufferLength(data))

\* The inner loop left at any time, whatever frames of the chunk remain.
frameLoopDone_anyTime(data, c, i) ==
    TRUE

\* The inner loop's test i < end - windowSize fails
frameLoopDone(data, c, i) ==
    i >= chunkEnd(data, c) - mainWindowSize

\* Math.min(127, Math.max(30, Math.floor(amplitude * 200)))
mainVelocity(sum) ==
    Min(127, Max(30, floorEnergyTimes(sum, mainWindowSize, 200)))

\* autocorrelationPitch(window, ...): 0 if (maxCorrelation < 0.3); a correlation
\* is a mean of products of two samples, so none reaches 0.3 unless the square
\* of some sample does.
autocorrelationPitch(data, i, policy) ==
    IF 10 * frameAmp(data, i, mainWindowSize) * frameAmp(data, i, mainWindowSize) < 30000
    THEN 0
    ELSE estimatePitch(data, i, mainWindowSize, policy)

\* if (midiNote >= 36 && midiNote <= 96)
mainInBand(midiNote) ==
    midiNote >= 36 /\ midiNote <= 96

\* The notes one pass of the chunked frame loop pushes: none or one.
mainDetection(data, rate, policy, i) ==
    LET amplitude == sumSquares(data, i, i + mainWindowSize)
        pitch == autocorrelationPitch(data, i, policy)
    IN  IF amplitude < 4 * mainWindowSize \/ pitch <= 0 THEN <<>>
        ELSE LET midiNote == MathRound(midiCents(pitch), 100)
             IN  IF mainInBand(midiNote)
                 THEN <<[time |-> i,
                         pitch |-> midiNote,
                         duration |-> mainHopSize,
                         velocity |-> mainVelocity(amplitude)]>>
                 ELSE <<>>

\* existing.duration = Math.max(existing.duration, note.time + note.duration - existing.time)
\* existing.velocity = Math.max(existing.velocity, note.velocity)
mergeInto(existing, note) ==
    [existing EXCEPT
        !.duration = Max(existing.duration, note.time + note.duration - existing.time),
        !.velocity = Max(existing.velocity, note.velocity)]

\* pitch within noteTolerance (0.5) and time within timeTolerance (0.15 s)
nearExisting(n, note, rate) ==
    /\ 2 * Abs(n.pitch - note.pitch) <= 1
    /\ 20 * Abs(n.time - note.time) <= 3 * rate

\* pitch within noteTolerance and note.time < existing.time + existing.duration + 0.05
overlapsExisting(n, note, rate) ==
    /\ 2 * Abs(n.pitch - note.pitch) <= 1
    /\ 20 * (note.time - (n.time + n.duration)) < rate

\* One pass of for (const note of detectedNotes)
mainConsolidateStep(consolidated, note, rate) ==
    LET near == {k \in 1..Len(consolidated) : nearExisting(consolidated[k], note, rate)}
        over == {k \in 1..Len(consolidated) : overlapsExisting(consolidated[k], note, rate)}
    IN  IF near # {}
        THEN [consolidated EXCEPT ![SetMin(near)] = mergeInto(@, note)]
        ELSE IF over # {}
        THEN [consolidated EXCEPT ![SetMin(over)] = mergeInto(@, note)]
        ELSE Append(consolidated, note)

\* .filter(note => note.duration >= 0.1).map(duration: Math.max(note.duration, 0.1))
finalCleanup(consolidated, rate) ==
    LET kept == SelectSeq(consolidated, LAMBDA n : 10 * n.duration >= rate)
    IN  [k \in 1..Len(kept) |->
            [kept[k] EXCEPT
                !.duration = IF 10 * @ >= rate THEN @ ELSE (rate + 9) \div 10]]

-----------------------------------------------------------------------------
(* The inputs of a conversion *)

Sil(n) == [n |-> n, amp |-> 0, freq |-> 0]

Tone(n, amp, freq) == [n |-> n, amp |-> amp, freq |-> freq]

\* Silence, a 440 Hz tone of 1 second at 44100 Hz, silence.
OneSecondTone == <<Sil(2048), Tone(44100, 50, 440), Sil(2048)>>

SilenceLengths == {0, 1, 1024, 2048, 2049, 2305, 3300, 90000}

\* The longest run of sounding segments in a short buffer.
MaxSegments == 2

SegmentLengths == {1536, 2560}

\* <<amp, freq>>: loud and soft tones in the band, at its edges, outside it,
\* a negative estimate, and silence.
SegmentContents ==
    {<<0, 0>>, <<50, 440>>, <<100, 466>>, <<100, 2100>>, <<2, 65>>, <<50, -1>>}

SegmentChoices ==
    {Tone(n, c[1], c[2]) : n \in SegmentLengths, c \in SegmentContents}

\* Every short buffer opens with one window of silence, where the worker's
\* first frame starts, and closes with silence.
ShortBuffers ==
    {<<Sil(1024)>> \o mid \o <<Sil(1280)>> :
        mid \in UNION {[1..k -> SegmentChoices] : k \in 0..MaxSegments}}

\* The most tone bursts in a buffer of bursts.
MaxBursts == 3

RECURSIVE Bursts(_, _)
Bursts(count, gap) ==
    IF count = 0 THEN <<Sil(1024)>>
    ELSE Bursts(count - 1, gap) \o <<Tone(1536, 50, 440), Sil(gap)>>

BurstBuffers ==
    {Bursts(count, gap) : count \in 1..MaxBursts, gap \in {1024, 4096}}

StraddlePolicies == {"none", "first", "last"}

WorkerInputs ==
    [data : {<<Sil(n)>> : n \in SilenceLengths}, rate : {44100},
     policy : {"none"}, spikes : {<<>>}]
    \cup [data : {OneSecondTone}, rate : {44100},
          policy : StraddlePolicies, spikes : {<<>>}]
    \cup [data : ShortBuffers \cup BurstBuffers, rate : {4000, 8000},
          policy : StraddlePolicies, spikes : {<<>>}]

\* Buffers long enough for the chunked frame loop of the main thread to analyse
\* frames (a chunk longer than a window), with frequencies at and beyond the
\* edges of the band and magnitudes on both sides of the correlation gate.
LongBuffers ==
    {<<Tone(110000, 60, 440)>>,
     <<Sil(20000), Tone(60000, 100, 440), Sil(30000)>>,
     <<Tone(50000, 60, 440), Tone(60000, 100, 466)>>,
     <<Tone(45000, 100, 2100), Sil(10000), Tone(45000, 2, 65)>>,
     <<Tone(90000, 60, 2170), Tone(30000, 60, 66)>>,
     <<Tone(100000, 100, 494), Tone(100000, 50, 415)>>,
     <<Tone(82000, 100, 30000), Tone(5000, 100, -1)>>}

FluxSpikes == {<<>>, <<2, 40>>, <<3, 20>>, <<2, 90>>}

MainInputs ==
    [data : {<<Sil(n)>> : n \in SilenceLengths} \cup {OneSecondTone}, rate : {44100},
     policy : {"none"}, spikes : {<<>>}]
    \cup [data : LongBuffers, rate : {8000, 44100},
          policy : StraddlePolicies, spikes : FluxSpikes]

\* The most detections in a stream handed to the Note Builder on its own.
MaxDetections == 3

\* The rates for the streams: at 2500 Hz a lone detection of 256 samples lasts
\* more than 0.05 s, at 8000 Hz less.
BuilderRates == {2500, 8000}

\* Detections of one hop each; at 2500 Hz 0.2 s is 500 samples, 0.15 s is
\* 375, 0.1 s is 250 and 0.05 s is 125.
DetectionChoices ==
    [time : {0, 256, 1024, 2000}, pitch : {60, 61, 64}, duration : {256}, velocity : {50}]

\* Streams of detections in any order.
DetectionStreams ==
    UNION {[1..n -> DetectionChoices] : n \in 0..MaxDetections}

-----------------------------------------------------------------------------
(* Specification SpecConv: one conversion, in the worker or on the main thread *)

vlqIdle ==
    /\ vlqPc = "idle"
    /\ vlqValue = 0
    /\ vlqBefore = <<>>
    /\ vlqEvents = <<>>

midiIdle ==
    /\ midiPc = "idle"
    /\ midiData = <<>>
    /\ sortedNotes = <<>>
    /\ noteIdx = 0
    /\ enc = encInit
    /\ midiResult = <<>>
    /\ midiGiven = <<>>
    /\ midiFirst = <<>>

noRequest == [audioData |-> <<>>, sampleRate |-> 0]

noPromise == [state |-> "none", result |-> [notes |-> <<>>, tempo |-> 0], error |-> ""]

protoIdle ==
    /\ request = noRequest
    /\ workerInbox = <<>>
    /\ posted = <<>>
    /\ callerInbox = <<>>
    /\ promise = noPromise
    /\ settleCalls = 0
    /\ workerStatus = "none"

noPage == [midiData |-> <<>>, detectedTempo |-> 0, isProcessing |-> FALSE]

uploadIdle ==
    /\ uploadPc = "idle"
    /\ pageState = noPage
    /\ pageBefore = noPage
    /\ uploadOutcome = "none"

yinIdle ==
    /\ yinPc = "idle"
    /\ yinFrame = [length |-> 0, samples |-> <<>>]
    /\ yinRate = 0
    /\ yinTau = 0
    /\ yinBuffer = <<>>
    /\ runningSum = 0
    /\ yinResult = [kind |-> "none"]

NoNote == [time |-> 0, pitch |-> 0, duration |-> 0, velocity |-> 0]

accInit == [consolidated |-> <<>>, currentNote |-> NoNote]

noResult == [notes |-> <<>>, tempo |-> 0]

convIdle ==
    /\ variant = "none"
    /\ audioData = <<>>
    /\ sampleRate = 1
    /\ straddle = "none"
    /\ fluxSpikes = <<>>
    /\ convPc = "idle"
    /\ frameI = 0
    /\ chunk = 0
    /\ detected = <<>>
    /\ onsets = <<>>
    /\ visited = {}
    /\ consState = accInit
    /\ consIdx = 0
    /\ tempo = 0
    /\ convResult = noResult

InitConv ==
    /\ \E in \in WorkerInputs \cup MainInputs :
          /\ audioData = in.data
          /\ sampleRate = in.rate
          /\ straddle = in.policy
          /\ fluxSpikes = in.spikes
          /\ \/ in \in WorkerInputs /\ variant = "worker"
                   /\ convPc = "frames" /\ frameI = workerWindowSize
             \/ in \in MainInputs /\ variant = "main"
                   /\ convPc = "tempo" /\ frameI = 0
    /\ chunk = 0
    /\ detected = <<>>
    /\ onsets = <<>>
    /\ visited = {}
    /\ consState = accInit
    /\ consIdx = 0
    /\ tempo = 0
    /\ convResult = noResult
    /\ vlqIdle
    /\ midiIdle
    /\ protoIdle
    /\ uploadIdle
    /\ yinIdle

workerLoopDone ==
    /\ variant = "worker"
    /\ convPc = "frames"
    /\ frameI >= bufferLength(audioData) - workerWindowSize

\* One pass of for (i = windowSize; i < audioData.length - windowSize; i += hopSize)
WorkerFrame ==
    /\ variant = "worker"
    /\ convPc = "frames"
    /\ frameI < bufferLength(audioData) - workerWindowSize
    /\ ~workerThrows(audioData, sampleRate, frameI)
    /\ onsets' = onsets \o workerOnset(audioData, frameI)
    /\ detected' = detected \o workerDetection(audioData, sampleRate, straddle, frameI)
    /\ visited' = visited \cup {frameI}
    /\ frameI' = frameI + workerHopSize
    /\ UNCHANGED <<convInputs, convPc, chunk, consState, consIdx, tempo, convResult,
                   vlqVars, midiVars, protoVars, uploadVars, yinVars>>

\* A pass of the frame loop in which detectPitchYIN throws: processAudio is left
WorkerThrow ==
    /\ variant = "worker"
    /\ convPc = "frames"
    /\ frameI < bufferLength(audioData) - workerWindowSize
    /\ workerThrows(audioData, sampleRate, frameI)
    /\ convPc' = "threw"
    /\ UNCHANGED <<convInputs, frameI, chunk, detected, onsets, consState, consIdx, tempo,
                   convResult, visited, vlqVars, midiVars, protoVars, uploadVars, yinVars>>

\* After the loop: const tempo = calculateTempo(onsets)
WorkerCalculateTempo ==
    /\ workerLoopDone
    /\ tempo' = calculateTempo(onsets, sampleRate)
    /\ convPc' = "notesReady"
    /\ UNCHANGED <<convInputs, frameI, chunk, detected, onsets, consState, consIdx,
                   convResult, visited, vlqVars, midiVars, protoVars, uploadVars, yinVars>>

\* consolidateNotes: if (notes.length === 0) return [], and return { notes, tempo }
WorkerReturnEmpty ==
    /\ variant = "worker"
    /\ convPc = "notesReady"
    /\ detected = <<>>
    /\ convResult' = [notes |-> <<>>, tempo |-> tempo]
    /\ convPc' = "done"
    /\ UNCHANGED <<convInputs, frameI, chunk, detected, onsets, consState, consIdx,
                   tempo, visited, vlqVars, midiVars, protoVars, uploadVars, yinVars>>

\* consolidateNotes up to its loop: notes.sort, consolidated = [], currentNote
WorkerConsolidateStart ==
    /\ variant = "worker"
    /\ convPc = "notesReady"
    /\ detected # <<>>
    /\ detected' = sortDetections(detected)
    /\ consState' = consolidateStart(detected')
    /\ consIdx' = 2
    /\ convPc' = "consolidate"
    /\ UNCHANGED <<convInputs, frameI, chunk, onsets, tempo, convResult,
                   visited, vlqVars, midiVars, protoVars, uploadVars, yinVars>>

\* One pass of for (let i = 1; i < notes.length; i++) of consolidateNotes
WorkerConsolidateStep ==
    /\ variant = "worker"
    /\ convPc = "consolidate"
    /\ consIdx <= Len(detected)
    /\ consState' = consolidateStep(consState, detected[consIdx], sampleRate)
    /\ consIdx' = consIdx + 1
    /\ UNCHANGED <<convInputs, convPc, frameI, chunk, detected, onsets, tempo,
                   convResult, visited, vlqVars, midiVars, protoVars, uploadVars, yinVars>>

\* The last note of consolidateNotes, and return { notes, tempo }
WorkerReturn ==
    /\ variant = "worker"
    /\ convPc = "consolidate"
    /\ consIdx > Len(detected)
    /\ convResult' = [notes |-> consolidateFinish(consState, sampleRate), tempo |-> tempo]
    /\ convPc' = "done"
    /\ UNCHANGED <<convInputs, frameI, chunk, detected, onsets, consState, consIdx, tempo,
                   visited, vlqVars, midiVars, protoVars, uploadVars, yinVars>>

\* const detectedTempo = detectTempo(channelData)
MainDetectTempo ==
    /\ variant = "main"
    /\ convPc = "tempo"
    /\ tempo' = detectTempo(audioData, fluxSpikes, sampleRate)
    /\ convPc' = "frames"
    /\ chunk' = 0
    /\ frameI' = chunkStart(audioData, 0)
    /\ UNCHANGED <<convInputs, detected, onsets, consState, consIdx, convResult,
                   visited, vlqVars, midiVars, protoVars, uploadVars, yinVars>>

\* One pass of for (let i = start; i < end - windowSize; i += hopSize)
MainFrame ==
    /\ variant = "main"
    /\ convPc = "frames"
    /\ chunk < chunkCount
    /\ frameI < chunkEnd(audioData, chunk) - mainWindowSize
    /\ detected' = detected \o mainDetection(audioData, sampleRate, straddle, frameI)
    /\ visited' = visited \cup {frameI}
    /\ frameI' = frameI + mainHopSize
    /\ UNCHANGED <<convInputs, convPc, chunk, onsets, consState, consIdx, tempo, convResult,
                   vlqVars, midiVars, protoVars, uploadVars, yinVars>>

\* The end of one chunk: the next chunk, after a yield when chunk % 5 === 0;
\* after the last chunk (19, no yield) the detections are complete
MainChunkEnd ==
    /\ variant = "main"
    /\ convPc = "frames"
    /\ chunk < chunkCount
    /\ frameLoopDone(audioData, chunk, frameI)
    /\ chunk' = chunk + 1
    /\ frameI' = chunkStart(audioData, chunk + 1)
    /\ convPc' = IF chunk % 5 = 0 THEN "yield"
                 ELSE IF chunk + 1 = chunkCount THEN "notesReady"
                 ELSE "frames"
    /\ UNCHANGED <<convInputs, detected, onsets, consState, consIdx, tempo, convResult,
                   visited, vlqVars, midiVars, protoVars, uploadVars, yinVars>>

\* The timer of await new Promise(resolve => setTimeout(resolve, 1)) fires
MainResume ==
    /\ variant = "main"
    /\ convPc = "yield"
    /\ convPc' = "frames"
    /\ UNCHANGED <<convInputs, frameI, chunk, detected, onsets, consState, consIdx, tempo,
                   convResult, visited, vlqVars, midiVars, protoVars, uploadVars, yinVars>>

\* After the chunks: detectedNotes.sort, consolidatedNotes = []
MainConsolidateStart ==
    /\ variant = "main"
    /\ convPc = "notesReady"
    /\ detected' = sortDetections(detected)
    /\ consState' = accInit
    /\ consIdx' = 1
    /\ convPc' = "consolidate"
    /\ UNCHANGED <<convInputs, frameI, chunk, onsets, tempo, convResult,
                   visited, vlqVars, midiVars, protoVars, uploadVars, yinVars>>

\* One pass of for (const note of detectedNotes)
MainConsolidateStep ==
    /\ variant = "main"
    /\ convPc = "consolidate"
    /\ consIdx <= Len(detected)
    /\ consState' = [consState EXCEPT !.consolidated =
                  mainConsolidateStep(consState.consolidated, detected[consIdx], sampleRate)]
    /\ consIdx' = consIdx + 1
    /\ UNCHANGED <<convInputs, convPc, frameI, chunk, detected, onsets, tempo,
                   convResult, visited, vlqVars, midiVars, protoVars, uploadVars, yinVars>>

\* The final cleanup, and return { notes: finalNotes, tempo: detectedTempo }
MainReturn ==
    /\ variant = "main"
    /\ convPc = "consolidate"
    /\ consIdx > Len(detected)
    /\ convResult' = [notes |-> finalCleanup(consState.consolidated, sampleRate),
                      tempo |-> tempo]
    /\ convPc' = "done"
    /\ UNCHANGED <<convInputs, frameI, chunk, detected, onsets, consState, consIdx, tempo,
                   visited, vlqVars, midiVars, protoVars, uploadVars, yinVars>>

NextConv ==
    \/ WorkerFrame
    \/ WorkerCalculateTempo
    \/ WorkerReturnEmpty
    \/ WorkerConsolidateStart
    \/ WorkerConsolidateStep
    \/ WorkerReturn
    \/ MainDetectTempo
    \/ MainFrame
    \/ MainChunkEnd
    \/ MainResume
    \/ MainConsolidateStart
    \/ MainConsolidateStep
    \/ MainReturn

SpecConv ==
    InitConv /\ [][NextConv]_vars

-----------------------------------------------------------------------------
(* Specification SpecBuilder: the Note Builder on its own, handed a stream of  *)
(* detections in any order: consolidateNotes(notes) of the worker, and the     *)
(* consolidation pass of detectPitchFromBuffer from detectedNotes.sort on.     *)

InitBuilder ==
    /\ variant \in {"worker", "main"}
    /\ detected \in DetectionStreams
    /\ sampleRate \in BuilderRates
    /\ convPc = "notesReady"
    /\ tempo = defaultTempo
    /\ audioData = <<>>
    /\ straddle = "none"
    /\ fluxSpikes = <<>>
    /\ frameI = 0
    /\ chunk = 0
    /\ onsets = <<>>
    /\ visited = {}
    /\ consState = accInit
    /\ consIdx = 0
    /\ convResult = noResult
    /\ vlqIdle
    /\ midiIdle
    /\ protoIdle
    /\ uploadIdle
    /\ yinIdle

NextBuilder ==
    \/ WorkerReturnEmpty
    \/ WorkerConsolidateStart
    \/ WorkerConsolidateStep
    \/ WorkerReturn
    \/ MainConsolidateStart
    \/ MainConsolidateStep
    \/ MainReturn

SpecBuilder ==
    InitBuilder /\ [][NextBuilder]_vars

-----------------------------------------------------------------------------
(* Specification SpecWorker: one call of processAudioWithWorker.  The caller   *)
(* creates the worker and posts one request; the worker's onmessage runs       *)
(* processAudio and posts a reply; the caller's handlers settle the promise    *)
(* and terminate the worker.  A request is any message the worker can be sent: *)
(* the sample rate may be zero or negative.                                    *)

RequestBuffers ==
    {<<>>,
     <<Sil(512)>>,
     <<Sil(3300)>>,
     <<Sil(1024), Tone(1536, 50, 440), Sil(1280)>>,
     <<Sil(1024), Tone(2560, 100, 2100), Sil(1280)>>,
     Bursts(2, 4096)}

RequestRates == {-44100, 0, 8000}

WorkerRequests ==
    [audioData : RequestBuffers, sampleRate : RequestRates]

\* self.postMessage({ success: true, result }) with an error field added.
successReply_withError(result) ==
    [success |-> TRUE, result |-> result, error |-> ""]

\* self.postMessage({ success: true, result })
successReply(result) ==
    [success |-> TRUE, result |-> result]

\* self.postMessage({ success: false, error: error.message })
failureReply(message) ==
    [success |-> FALSE, error |-> message]

\* resolve or reject on a promise: only a pending promise changes.
settle(p, state, result, error) ==
    IF p.state = "pending"
    THEN [state |-> state, result |-> result, error |-> error]
    ELSE p

\* The caller's handler rejecting a result that holds no note.
callerOnMessage_rejectEmpty(p, m) ==
    IF m.success /\ m.result.notes # <<>>
    THEN settle(p, "resolved", m.result, "")
    ELSE settle(p, "rejected", noPromise.result, "empty")

\* worker.onmessage: if (success) resolve(result) else reject(new Error(error))
callerOnMessage(p, m) ==
    IF m.success
    THEN settle(p, "resolved", m.result, "")
    ELSE settle(p, "rejected", noPromise.result, m.error)

\* The state after the executor of the promise has run: the worker is created,
\* the handlers are set and the request is posted.
InitWorker ==
    /\ request \in WorkerRequests
    /\ workerInbox = <<request>>
    /\ posted = <<>>
    /\ callerInbox = <<>>
    /\ promise = [noPromise EXCEPT !.state = "pending"]
    /\ settleCalls = 0
    /\ workerStatus = "created"
    /\ variant = "none"
    /\ audioData = <<>>
    /\ sampleRate = 1
    /\ straddle \in StraddlePolicies
    /\ fluxSpikes = <<>>
    /\ convPc = "idle"
    /\ frameI = 0
    /\ chunk = 0
    /\ detected = <<>>
    /\ onsets = <<>>
    /\ visited = {}
    /\ consState = accInit
    /\ consIdx = 0
    /\ tempo = 0
    /\ convResult = noResult
    /\ vlqIdle
    /\ midiIdle
    /\ uploadIdle
    /\ yinIdle

\* self.onmessage up to the first pass of the loop of processAudio
WorkerOnMessage ==
    /\ workerStatus = "created"
    /\ workerInbox # <<>>
    /\ workerInbox' = Tail(workerInbox)
    /\ workerStatus' = "running"
    /\ variant' = "worker"
    /\ audioData' = Head(workerInbox).audioData
    /\ sampleRate' = Head(workerInbox).sampleRate
    /\ convPc' = "frames"
    /\ frameI' = workerWindowSize
    /\ UNCHANGED <<straddle, fluxSpikes, chunk, detected, onsets, visited, consState,
                   consIdx, tempo, convResult, request, posted, callerInbox, promise,
                   settleCalls, vlqVars, midiVars, uploadVars, yinVars>>

\* self.postMessage({ success: true, result })
WorkerPostSuccess ==
    /\ workerStatus = "running"
    /\ convPc = "done"
    /\ posted' = Append(posted, successReply(convResult))
    /\ callerInbox' = Append(callerInbox, successReply(convResult))
    /\ workerStatus' = "finished"
    /\ UNCHANGED <<request, workerInbox, promise, settleCalls, convVars, vlqVars, midiVars,
                   uploadVars, yinVars>>

\* catch (error): self.postMessage({ success: false, error: error.message })
WorkerPostFailure ==
    /\ workerStatus = "running"
    /\ convPc = "threw"
    /\ posted' = Append(posted, failureReply("Invalid typed array length"))
    /\ callerInbox' = Append(callerInbox, failureReply("Invalid typed array length"))
    /\ workerStatus' = "finished"
    /\ UNCHANGED <<request, workerInbox, promise, settleCalls, convVars, vlqVars, midiVars,
                   uploadVars, yinVars>>

\* worker.onmessage of the caller: settle the promise, worker.terminate()
CallerOnMessage ==
    /\ workerStatus # "terminated"
    /\ callerInbox # <<>>
    /\ promise' = callerOnMessage(promise, Head(callerInbox))
    /\ settleCalls' = settleCalls + 1
    /\ callerInbox' = Tail(callerInbox)
    /\ workerStatus' = "terminated"
    /\ UNCHANGED <<request, workerInbox, posted, convVars, vlqVars, midiVars, uploadVars, yinVars>>

\* worker.onerror of the caller, when the worker's script cannot be run:
\* reject(error), worker.terminate()
CallerOnError ==
    /\ workerStatus = "created"
    /\ promise' = settle(promise, "rejected", noPromise.result, "error event")
    /\ settleCalls' = settleCalls + 1
    /\ workerInbox' = <<>>
    /\ workerStatus' = "terminated"
    /\ UNCHANGED <<request, posted, callerInbox, convVars, vlqVars, midiVars, uploadVars, yinVars>>

NextWorker ==
    \/ WorkerOnMessage
    \/ WorkerFrame
    \/ WorkerThrow
    \/ WorkerCalculateTempo
    \/ WorkerReturnEmpty
    \/ WorkerConsolidateStart
    \/ WorkerConsolidateStep
    \/ WorkerReturn
    \/ WorkerPostSuccess
    \/ WorkerPostFailure
    \/ CallerOnMessage
    \/ CallerOnError

\* Every handler, once started, runs to its end, and a posted message is
\* delivered while its receiver is alive.
SpecWorker ==
    InitWorker /\ [][NextWorker]_vars /\ WF_vars(NextWorker)

-----------------------------------------------------------------------------
(* Specification SpecVLQ: writeVarLength called once on an events array *)

InitVLQ ==
    /\ vlqPc = "call"
    /\ vlqValue \in VLQInputs
    /\ vlqBefore \in VLQPrefixes
    /\ vlqEvents = vlqBefore
    /\ midiIdle
    /\ convIdle
    /\ protoIdle
    /\ uploadIdle
    /\ yinIdle

WriteVarLength ==
    /\ vlqPc = "call"
    /\ vlqEvents' = writeVarLength(vlqEvents, vlqValue)
    /\ vlqPc' = "done"
    /\ UNCHANGED <<vlqValue, vlqBefore, midiVars, convVars, protoVars, uploadVars, yinVars>>

NextVLQ ==
    WriteVarLength

SpecVLQ ==
    InitVLQ /\ [][NextVLQ]_vars

-----------------------------------------------------------------------------
(* Specification SpecMidi: one call of createMidiFile, one action per step *)

InitMidi ==
    /\ midiPc = "start"
    /\ midiData \in NoteLists
    /\ sortedNotes = <<>>
    /\ noteIdx = 0
    /\ enc = encInit
    /\ midiResult = <<>>
    /\ midiGiven = midiData
    /\ midiFirst = <<>>
    /\ vlqIdle
    /\ convIdle
    /\ protoIdle
    /\ uploadIdle
    /\ yinIdle

\* The header, the sorted copy, the encoder's locals.
CreateMidiFileCall ==
    /\ midiPc = "start"
    /\ sortedNotes' = sortNotes(midiData)
    /\ enc' = encInit
    /\ noteIdx' = 1
    /\ midiPc' = "forEach"
    /\ midiData' = notesAfterCopy(midiData)
    /\ UNCHANGED <<midiResult, midiGiven, midiFirst, vlqVars, convVars, protoVars,
                   uploadVars, yinVars>>

\* One iteration of sortedNotes.forEach
ForEachNote ==
    /\ midiPc = "forEach"
    /\ noteIdx <= Len(sortedNotes)
    /\ enc' = forEachNote(enc, sortedNotes[noteIdx])
    /\ noteIdx' = noteIdx + 1
    /\ UNCHANGED <<midiPc, midiData, sortedNotes, midiResult, midiGiven, midiFirst,
                   vlqVars, convVars, protoVars, uploadVars, yinVars>>

\* The remaining note-offs, the end of track, the track chunk, the result.
CreateMidiFileReturn ==
    /\ midiPc = "forEach"
    /\ noteIdx > Len(sortedNotes)
    /\ enc' = endOfTrack(enc)
    /\ midiResult' = header \o trackChunk(enc'.events)
    /\ midiPc' = "done"
    /\ UNCHANGED <<midiData, sortedNotes, noteIdx, midiGiven, midiFirst,
                   vlqVars, convVars, protoVars, uploadVars, yinVars>>

NextMidi ==
    \/ CreateMidiFileCall
    \/ ForEachNote
    \/ CreateMidiFileReturn

SpecMidi ==
    InitMidi /\ [][NextMidi]_vars

\* The caller keeps the bytes and calls createMidiFile again on the same array.
CreateMidiFileAgain ==
    /\ midiPc = "done"
    /\ midiFirst = <<>>
    /\ midiFirst' = midiResult
    /\ midiResult' = <<>>
    /\ midiPc' = "start"
    /\ UNCHANGED <<midiData, sortedNotes, noteIdx, enc, midiGiven,
                   vlqVars, convVars, protoVars, uploadVars, yinVars>>

NextMidiTwice ==
    \/ CreateMidiFileCall
    \/ ForEachNote
    \/ CreateMidiFileReturn
    \/ CreateMidiFileAgain

\* Specification SpecMidiTwice: two successive calls of createMidiFile on one array
SpecMidiTwice ==
    InitMidi /\ [][NextMidiTwice]_vars

-----------------------------------------------------------------------------
(* Properties of writeVarLength, checked under SpecVLQ *)

\* The bytes the call appended to the events array.
vlqAppended ==
    SubSeq(vlqEvents, Len(vlqBefore) + 1, Len(vlqEvents))

VLQCeiling ==
    2 ^ 28

\* C1: writeVarLength encodes 0 as 0x00, 127 as 0x7F, 128 as 0x81 0x00,
\* 16383 as 0xFF 0x7F and 16384 as 0x81 0x80 0x00.
C1_VarLengthExamples ==
    vlqPc = "done" =>
        /\ (vlqValue = 0 => vlqAppended = <<0>>)
        /\ (vlqValue = 127 => vlqAppended = <<127>>)
        /\ (vlqValue = 128 => vlqAppended = <<129, 0>>)
        /\ (vlqValue = 16383 => vlqAppended = <<255, 127>>)
        /\ (vlqValue = 16384 => vlqAppended = <<129, 128, 0>>)

C1_Witness ==
    /\ vlqPc = "done"
    /\ vlqValue = 16384
    /\ Len(vlqAppended) = 3

\* C2: for every value in 0 .. 2^28 - 1 the call appends 1 to 4 bytes, each in
\* 0..255, the most significant bit set on every byte but the last, as few
\* bytes as the value allows, and the standard decoder gives the value back.
C2_VarLengthRoundTrip ==
    (vlqPc = "done" /\ 0 <= vlqValue /\ vlqValue < VLQCeiling) =>
        LET bytes == vlqAppended
            n == Len(bytes)
        IN  /\ SubSeq(vlqEvents, 1, Len(vlqBefore)) = vlqBefore
            /\ n \in 1..4
            /\ \A i \in 1..n : bytes[i] \in 0..255
            /\ \A i \in 1..(n - 1) : bytes[i] >= 128
            /\ bytes[n] < 128
            /\ (n > 1 => vlqValue >= 128 ^ (n - 1))
            /\ VLQDecode(bytes) = vlqValue

C2_Witness ==
    /\ vlqPc = "done"
    /\ vlqValue = VLQCeiling - 1
    /\ vlqAppended = <<255, 255, 255, 127>>

\* C5: a delta-time of 2^28 or more makes the encoder fail; the call never
\* completes with bytes written for such a value.
C5_OverflowFails ==
    vlqValue >= VLQCeiling => vlqPc # "done"

-----------------------------------------------------------------------------
(* Properties of createMidiFile, checked under SpecMidi *)

noteEnd(note) ==
    note.time + note.duration

\* The positions in the log of the note-offs written for a note.
OffPositions(note) ==
    {i \in 1..Len(enc.log) :
        /\ enc.log[i].kind = "off"
        /\ enc.log[i].time = noteEnd(note)
        /\ enc.log[i].pitch = note.pitch}

OnTimes ==
    [i \in {k \in 1..Len(enc.log) : enc.log[k].kind = "on"} |-> enc.log[i].time]

\* B starts before A ends and A ends before B ends.
OverlapEndingFirst(A, B) ==
    /\ B.time < noteEnd(A)
    /\ noteEnd(A) < noteEnd(B)

\* C3: for notes A and B where B starts before A ends and A ends before B
\* ends, A's note-off is written before B's; and with onsets and durations
\* >= 0 no delta-time handed to writeVarLength is negative.
C3_OverlapOrder ==
    /\ (\A i \in 1..Len(midiData) :
            midiData[i].time >= 0 /\ midiData[i].duration >= 0)
        => \A k \in 1..Len(enc.log) : enc.log[k].delta >= 0
    /\ midiPc = "done" =>
        \A a \in 1..Len(midiData), b \in 1..Len(midiData) :
            OverlapEndingFirst(midiData[a], midiData[b]) =>
                /\ OffPositions(midiData[a]) # {}
                /\ OffPositions(midiData[b]) # {}
                /\ \A i \in OffPositions(midiData[a]), j \in OffPositions(midiData[b]) :
                        i < j

\* B is given first and ends last; A starts inside B and ends inside B.
C3_Witness ==
    /\ midiPc = "done"
    /\ Len(midiData) >= 2
    /\ OverlapEndingFirst(midiData[2], midiData[1])
    /\ midiData[1].time < midiData[2].time
    /\ \A k \in 1..Len(enc.log) : enc.log[k].delta >= 0

BigEndian32(b) ==
    ((b[1] * 256 + b[2]) * 256 + b[3]) * 256 + b[4]

\* C4: the result is the 14-byte header chunk, then "MTrk", a 4-byte
\* big-endian length equal to the number of payload bytes, and a payload ending
\* in 0x00 0xFF 0x2F 0x00; for no notes the payload is that marker alone and
\* the buffer is 26 bytes.
C4_ChunkLayout ==
    midiPc = "done" =>
        LET n == Len(midiResult)
        IN  /\ n >= 26
            /\ SubSeq(midiResult, 1, 14)
                 = <<77, 84, 104, 100, 0, 0, 0, 6, 0, 0, 0, 1, 1, 224>>
            /\ SubSeq(midiResult, 15, 18) = <<77, 84, 114, 107>>
            /\ BigEndian32(SubSeq(midiResult, 19, 22)) = n - 22
            /\ SubSeq(midiResult, n - 3, n) = <<0, 255, 47, 0>>
            /\ \A i \in 1..n : midiResult[i] \in 0..255
            /\ (Len(midiData) = 0 => n = 26)

C4_Witness ==
    /\ midiPc = "done"
    /\ Len(midiData) = 2
    /\ Len(midiResult) > 26
    /\ BigEndian32(SubSeq(midiResult, 19, 22)) = Len(midiResult) - 22

DistinctOnsets(notes) ==
    \A i \in 1..Len(notes), j \in 1..Len(notes) :
        i # j => notes[i].time # notes[j].time

\* C9: createMidiFile takes notes in any order and writes their note-ons in
\* non-decreasing onset order; with pairwise distinct onsets every
\* permutation of the list encodes to the same bytes.
C9_OrderInsensitive ==
    /\ \A i \in DOMAIN OnTimes, j \in DOMAIN OnTimes :
            i < j => OnTimes[i] <= OnTimes[j]
    /\ (midiPc = "done" /\ DistinctOnsets(midiData)) =>
            \A p \in Permutations(1..Len(midiData)) :
                createMidiFile([i \in 1..Len(midiData) |-> midiData[p[i]]]) = midiResult

\* A list given in decreasing onset order.
C9_Witness ==
    /\ midiPc = "done"
    /\ Len(midiData) = 3
    /\ midiData[1].time > midiData[2].time
    /\ midiData[2].time > midiData[3].time
    /\ Cardinality(DOMAIN OnTimes) = 3

-----------------------------------------------------------------------------
(* Properties of a conversion *)

silentBuffer ==
    \A k \in 1..Len(audioData) : audioData[k].amp = 0

sortedByOnset(notes) ==
    \A k \in 1..(Len(notes) - 1) : notes[k].time <= notes[k + 1].time

\* C6: silence, a 440 Hz tone of 1 second at 44100 Hz, silence, every frame
\* inside the tone detected as 69: processAudio returns exactly one note, of
\* pitch 69 and of duration between 0.9 s and 1.1 s.
C6_OneSecondTone ==
    (variant = "worker" /\ convPc = "done"
        /\ audioData = OneSecondTone /\ sampleRate = 44100) =>
        /\ Len(convResult.notes) = 1
        /\ convResult.notes[1].pitch = 69
        /\ 10 * convResult.notes[1].duration >= 9 * sampleRate
        /\ 10 * convResult.notes[1].duration <= 11 * sampleRate

\* C7: every note a conversion returns has 36 <= pitch <= 96,
\* 0 <= velocity <= 127, duration > 0 and onset time >= 0.
C7_NoteRanges ==
    \A k \in 1..Len(convResult.notes) :
        /\ convResult.notes[k].pitch >= 36
        /\ convResult.notes[k].pitch <= 96
        /\ convResult.notes[k].velocity >= 0
        /\ convResult.notes[k].velocity <= 127
        /\ convResult.notes[k].duration > 0
        /\ convResult.notes[k].time >= 0

\* A returned note at the top of both ranges.
C7_Witness ==
    /\ convPc = "done"
    /\ \E k \in 1..Len(convResult.notes) :
          /\ convResult.notes[k].pitch = 96
          /\ convResult.notes[k].velocity = 127

\* C8: the list the Note Builder returns is in non-decreasing order of onset
\* time, whatever the order of the detections it is handed.
C8_SortedByOnset ==
    /\ sortedByOnset(consState.consolidated)
    /\ sortedByOnset(convResult.notes)

\* Three notes returned, at three different onsets.
C8_Witness ==
    /\ convPc = "done"
    /\ Len(convResult.notes) = 3
    /\ convResult.notes[1].time < convResult.notes[2].time
    /\ convResult.notes[2].time < convResult.notes[3].time

\* C10: an all-zero buffer of any length yields no note and the tempo 120.
C10_SilenceDefault ==
    (convPc = "done" /\ silentBuffer) =>
        /\ convResult.notes = <<>>
        /\ convResult.tempo = 120

\* A silent buffer long enough for every frame loop to analyse frames.
C10_Witness ==
    /\ convPc = "done"
    /\ silentBuffer
    /\ bufferLength(audioData) = 90000
    /\ variant = "main"
    /\ frameI > 0

\* C11: the tempo a conversion computes and returns lies in [60, 180], the
\* default included.
C11_TempoBounds ==
    /\ (tempo # 0 => tempo >= 60 /\ tempo <= 180)
    /\ (convPc = "done" => convResult.tempo >= 60 /\ convResult.tempo <= 180)

\* A tempo computed from inter-onset intervals and held at the upper bound.
C11_Witness ==
    /\ convPc = "done"
    /\ variant = "worker"
    /\ Len(onsets) >= 3
    /\ convResult.tempo = 180

-----------------------------------------------------------------------------
(* Properties of the worker's request and reply, checked under SpecWorker *)

\* A zero-length buffer, a sample rate <= 0, or a buffer shorter than the window.
invalidRequest ==
    \/ bufferLength(request.audioData) = 0
    \/ request.sampleRate <= 0
    \/ bufferLength(request.audioData) < workerWindowSize

replyTagged(m) ==
    \/ DOMAIN m = {"success", "result"} /\ m.success
    \/ DOMAIN m = {"success", "error"} /\ ~m.success

\* C12: a conversion called with a zero-length buffer, a sample rate <= 0 or a
\* buffer shorter than the analysis window fails: the worker replies
\* success: false, and no note list or tempo reaches the caller.
C12_InvalidRequestFails ==
    invalidRequest =>
        /\ \A k \in 1..Len(posted) : ~posted[k].success
        /\ promise.state # "resolved"

\* C13: when processAudio ends with no note, the worker posts success: true
\* with notes = [], and the caller's promise resolves with that result.
C13_NoNotesIsSuccess ==
    (convPc = "done" /\ convResult.notes = <<>>) =>
        /\ \A k \in 1..Len(posted) :
              /\ posted[k].success
              /\ posted[k].result.notes = <<>>
        /\ (workerStatus = "finished" => Len(posted) = 1)
        /\ promise.state # "rejected"
        /\ (workerStatus = "terminated" =>
              promise.state = "resolved" /\ promise.result.notes = <<>>)

\* A buffer with sound in it, out of the band, at a positive rate: resolved, no note.
C13_Witness ==
    /\ promise.state = "resolved"
    /\ promise.result.notes = <<>>
    /\ request.sampleRate > 0
    /\ ~silentBuffer
    /\ visited # {}

oneTaggedReply ==
    /\ Len(posted) <= 1
    /\ (workerStatus \in {"created", "running"} => posted = <<>>)
    /\ (workerStatus = "finished" => Len(posted) = 1)
    /\ \A k \in 1..Len(posted) : replyTagged(posted[k])

settledOnce ==
    /\ settleCalls <= 1
    /\ (promise.state = "pending" <=> settleCalls = 0)
    /\ (promise.state = "resolved" =>
          /\ Len(posted) = 1
          /\ posted[1].success
          /\ promise.result = posted[1].result)
    /\ (promise.state = "rejected" /\ posted # <<>> =>
          /\ ~posted[1].success
          /\ promise.error = posted[1].error)

\* C14: for a request it receives the worker posts exactly one reply, tagged
\* success: true with a result or success: false with an error, never both
\* and never none; the promise resolves on the first, rejects on the second,
\* and settles exactly once.
C14_OneReplyOneSettle ==
    /\ [](oneTaggedReply /\ settledOnce)
    /\ (workerStatus = "running" ~> Len(posted) = 1)
    /\ (workerStatus = "running" ~> (promise.state \in {"resolved", "rejected"}
                                        /\ settleCalls = 1))

\* A request answered success: false, and the promise rejected with its error.
C14_Witness ==
    /\ Len(posted) = 1
    /\ ~posted[1].success
    /\ promise.state = "rejected"
    /\ promise.error = posted[1].error
    /\ workerStatus = "terminated"

-----------------------------------------------------------------------------
(* Properties of the frame loops, checked under SpecConv *)

\* The frame starts the inner loop of chunk c goes through.
framesOfChunk(data, c) ==
    {i \in {chunkStart(data, c) + k * mainHopSize :
                k \in 0..(processChunkSize(data) \div mainHopSize)} :
        i < chunkEnd(data, c) - mainWindowSize}

framesOfChunks(data, cs) ==
    UNION {framesOfChunk(data, c) : c \in cs}

\* Every analysed frame has pushed its note, if it has one, and nothing else is pushed.
framesComplete ==
    {detected[k].time : k \in 1..Len(detected)}
        = {i \in visited : mainDetection(audioData, sampleRate, straddle, i) # <<>>}

yieldBetweenFrames ==
    variant = "main" =>
        /\ (convPc = "yield" =>
              /\ chunk \in {1, 6, 11, 16}
              /\ frameI = chunkStart(audioData, chunk)
              /\ visited = framesOfChunks(audioData, 0..(chunk - 1))
              /\ framesComplete)
        /\ (convPc \in {"notesReady", "consolidate", "done"} =>
              /\ chunk = chunkCount
              /\ visited = framesOfChunks(audioData, 0..(chunkCount - 1))
              /\ framesComplete)

\* While the loop is suspended no frame is analysed and no note is pushed.
suspendedStep ==
    convPc = "yield" =>
        /\ convPc' = "frames"
        /\ UNCHANGED <<frameI, chunk, detected, visited, consState, convResult>>

\* C15: detectPitchFromBuffer yields to the event loop only between whole
\* frames, with every frame of the chunks so far analysed and its note
\* pushed, and consolidation starts only after the last frame of the last chunk.
C15_YieldBetweenFrames ==
    [](yieldBetweenFrames) /\ [][suspendedStep]_vars

\* Suspended after chunk 5, with frames analysed and notes pushed.
C15_Witness ==
    /\ variant = "main"
    /\ convPc = "yield"
    /\ chunk = 6
    /\ Cardinality(visited) > 6
    /\ detected # <<>>

-----------------------------------------------------------------------------
(* Properties of two calls of createMidiFile, checked under SpecMidiTwice *)

\* C16: a second call of createMidiFile on the same note list returns the
\* bytes of the first, and a call leaves the list it was given as it was.
C16_EncodeTwice ==
    /\ midiData = midiGiven
    /\ (midiPc = "done" /\ midiFirst # <<>> => midiResult = midiFirst)

\* Two calls completed on a list of three notes given out of onset order.
C16_Witness ==
    /\ midiPc = "done"
    /\ midiFirst # <<>>
    /\ midiResult = midiFirst
    /\ Len(midiGiven) = 3
    /\ midiGiven[1].time > midiGiven[2].time

-----------------------------------------------------------------------------
(* Properties of the worker's consolidateNotes on the detections of a conversion *)

\* Detections of one pitch, each starting where the one before it ends.
gapFreeRun(ds) ==
    \A k \in 1..(Len(ds) - 1) :
        /\ ds[k + 1].pitch = ds[k].pitch
        /\ ds[k + 1].time = ds[k].time + ds[k].duration

\* C17: consolidateNotes measures the gap of a detection from the end of the
\* note being built (onset + duration), so a gap-free run of detections of
\* one pitch comes out as one note, however long the run is.
C17_GapFreeRunIsOneNote ==
    (variant = "worker" /\ convPc = "done" /\ gapFreeRun(detected)) =>
        Len(convResult.notes) <= 1

\* The frame starts 0, H, 2H, ... with start + W <= length.
coveringFrames(length, W, H) ==
    {s \in {k * H : k \in 0..(length \div H)} : s + W <= length}

frameLoopOver ==
    convPc \in {"notesReady", "consolidate", "done"}

\* C18: a frame loop analyses exactly the frames that start at 0, H, 2H, ...
\* with start + W <= length, the one at 0 and the one ending at the last
\* sample included.
C18_FramesCovered ==
    /\ (variant = "worker" /\ frameLoopOver =>
          visited = coveringFrames(bufferLength(audioData), workerWindowSize, workerHopSize))
    /\ (variant = "main" /\ frameLoopOver =>
          visited = coveringFrames(bufferLength(audioData), mainWindowSize, mainHopSize))

\* The frames of the worker in which a pitch is looked for and found.
pitchedFrames ==
    {i \in visited :
        /\ energyOver015(sumSquares(audioData, i, i + workerWindowSize), workerWindowSize)
        /\ detectPitchYIN(audioData, sampleRate, i, straddle) > 0}

roundedNote(i) ==
    MathRound(midiCents(detectPitchYIN(audioData, sampleRate, i, straddle)), 100)

\* C19: a frame of the worker with a pitch and enough energy enters the note
\* stream exactly when its rounded note number is in [36, 96], with that
\* number as its pitch: dropped outside the band, never clamped into it.
C19_RoundedBand ==
    (variant = "worker" /\ frameLoopOver) =>
        /\ \A i \in pitchedFrames :
              (\E k \in 1..Len(detected) : detected[k].time = i)
                  <=> (roundedNote(i) >= 36 /\ roundedNote(i) <= 96)
        /\ \A k \in 1..Len(detected) :
              /\ detected[k].time \in pitchedFrames
              /\ detected[k].pitch = roundedNote(detected[k].time)

\* A list of completed notes after an accumulator is finalized: the
\* accumulator is added when it lasts at least 0.05 s, and only then.
finalized(list, accumulator) ==
    IF 20 * accumulator.duration >= sampleRate
    THEN Append(list, accumulator)
    ELSE list

\* One step of the worker's consolidation, on the detection at consIdx or at
\* the end of the stream.
consolidationRule ==
    (variant = "worker" /\ convPc = "consolidate") =>
        LET currentNote == consState.currentNote
        IN  IF consIdx <= Len(detected)
            THEN /\ consIdx' = consIdx + 1
                 /\ \/ /\ consState'.consolidated = consState.consolidated
                       /\ consState'.currentNote.time = currentNote.time
                       /\ consState'.currentNote.duration =
                              detected[consIdx].time + detected[consIdx].duration
                                  - currentNote.time
                    \/ /\ consState'.consolidated =
                              finalized(consState.consolidated, currentNote)
                       /\ consState'.currentNote = detected[consIdx]
            ELSE /\ convPc' = "done"
                 /\ convResult'.notes = finalized(consState.consolidated, currentNote)

\* C20: each detection either extends the accumulator or starts the next one;
\* when a detection starts the next one, and when the stream ends, the
\* accumulator is emitted if and only if it lasts at least 0.05 s.
C20_MinimumDuration ==
    [][consolidationRule]_vars

\* The stream has ended with an accumulator too short to emit, after one that
\* was long enough and was emitted.
C20_Witness ==
    /\ variant = "worker"
    /\ convPc = "done"
    /\ 20 * consState.currentNote.duration < sampleRate
    /\ Len(consState.consolidated) = 1
    /\ convResult.notes = consState.consolidated
    /\ Len(detected) = MaxDetections

-----------------------------------------------------------------------------
(* Properties of the event stream of createMidiFile, checked under SpecMidi *)

\* The note-offs still pending that are due at time t or before.
pendingDue(t) ==
    {k \in 1..Len(enc.noteOffs) : enc.noteOffs[k].time <= t}

\* The note whose note-on was written last.
lastStarted ==
    sortedNotes[noteIdx - 1]

\* C21: note-ons and note-offs are written in non-decreasing order of time,
\* and when a note-on has been written no note-off of an earlier note that
\* was due at or before its time is still waiting: the only note-off that can
\* be pending and due is the one of this very note, when its duration is 0.
C21_MergedInTimeOrder ==
    /\ \A k \in 1..(Len(enc.log) - 1) : enc.log[k].time <= enc.log[k + 1].time
    /\ (midiPc = "forEach" /\ noteIdx > 1) =>
          /\ enc.log[Len(enc.log)] =
                 [kind |-> "on", time |-> lastStarted.time,
                  pitch |-> lastStarted.pitch,
                  delta |-> enc.log[Len(enc.log)].delta]
          /\ Cardinality(pendingDue(lastStarted.time)) <= 1
          /\ \A k \in pendingDue(lastStarted.time) :
                /\ lastStarted.duration = 0
                /\ enc.noteOffs[k] =
                       [time |-> lastStarted.time, pitch |-> lastStarted.pitch]

\* A note-off and the next note-on fall on the same time, the note-off is
\* written first, and another note is still sounding across them.
C21_Witness ==
    /\ midiPc = "done"
    /\ \E k \in 1..(Len(enc.log) - 1) :
          /\ enc.log[k].kind = "off"
          /\ enc.log[k + 1].kind = "on"
          /\ enc.log[k].time = enc.log[k + 1].time
    /\ \E a \in 1..Len(midiData), b \in 1..Len(midiData) :
          OverlapEndingFirst(midiData[a], midiData[b])

\* A reader of track data: a variable-length delta-time, then a status byte
\* and two data bytes, over and over.  Data that stops inside an event gives
\* an event of status -1.
RECURSIVE readTrack(_, _, _)
readTrack(bytes, delta, out) ==
    IF bytes = <<>> THEN out
    ELSE IF Head(bytes) >= 128
    THEN readTrack(Tail(bytes), delta * 128 + (Head(bytes) % 128), out)
    ELSE IF Len(bytes) < 4
    THEN Append(out, [delta |-> delta * 128 + Head(bytes), status |-> -1,
                      data1 |-> 0, data2 |-> 0])
    ELSE readTrack(SubSeq(bytes, 5, Len(bytes)), 0,
                   Append(out, [delta |-> delta * 128 + Head(bytes),
                                status |-> bytes[2],
                                data1 |-> bytes[3], data2 |-> bytes[4]]))

\* The events of the track chunk of the result.
trackEvents ==
    readTrack(SubSeq(midiResult, 23, Len(midiResult)), 0, <<>>)

eventsOfStatus(events, status) ==
    {k \in 1..Len(events) : events[k].status = status}

\* The position in the log of the note-on of the j-th note of sortedNotes.
onPosition(j) ==
    CHOOSE i \in 1..Len(enc.log) :
        /\ enc.log[i].kind = "on"
        /\ Cardinality({k \in 1..i : enc.log[k].kind = "on"}) = j

\* The notes that end at time t with pitch p and whose note-on is written
\* before position i.
startedBefore(i, t, p) ==
    {j \in 1..Len(sortedNotes) :
        /\ noteEnd(sortedNotes[j]) = t
        /\ sortedNotes[j].pitch = p
        /\ onPosition(j) < i}

\* C22: for n notes the track holds n note-ons (0x90, pitch, velocity), n
\* note-offs (0x80, pitch, 0x40) and the end of track; every note has a
\* note-off of its pitch after its note-on, and no note-off is left pending
\* when the end of track is written.
C22_OnAndOffPerNote ==
    midiPc = "done" =>
        LET n == Len(midiData)
            events == trackEvents
        IN  /\ Len(events) = 2 * n + 1
            /\ events[2 * n + 1] = [delta |-> 0, status |-> 255, data1 |-> 47, data2 |-> 0]
            /\ Cardinality(eventsOfStatus(events, 144)) = n
            /\ Cardinality(eventsOfStatus(events, 128)) = n
            /\ Len(enc.log) = 2 * n
            /\ enc.noteOffs = <<>>
            /\ \A k \in 1..(2 * n) :
                  /\ events[k].delta = enc.log[k].delta
                  /\ events[k].data1 = enc.log[k].pitch
                  /\ IF enc.log[k].kind = "on"
                     THEN events[k].status = 144
                     ELSE events[k].status = 128 /\ events[k].data2 = 64
            /\ \A j \in 1..n :
                  /\ events[onPosition(j)].data1 = sortedNotes[j].pitch
                  /\ events[onPosition(j)].data2 = sortedNotes[j].velocity
            /\ \A i \in 1..(2 * n) :
                  enc.log[i].kind = "off" =>
                      Cardinality({k \in 1..i :
                                      /\ enc.log[k].kind = "off"
                                      /\ enc.log[k].time = enc.log[i].time
                                      /\ enc.log[k].pitch = enc.log[i].pitch})
                          <= Cardinality(startedBefore(i, enc.log[i].time, enc.log[i].pitch))
            /\ \A a \in 1..n :
                  Cardinality(OffPositions(midiData[a]))
                      = Cardinality({b \in 1..n :
                                        /\ noteEnd(midiData[b]) = noteEnd(midiData[a])
                                        /\ midiData[b].pitch = midiData[a].pitch})

\* Three notes, two of one pitch, and the last two events before the end of
\* track are note-offs written by the loop after forEach.
C22_Witness ==
    /\ midiPc = "done"
    /\ Len(midiData) = 3
    /\ midiData[1].pitch = midiData[2].pitch
    /\ midiData[1].pitch # midiData[3].pitch
    /\ enc.log[5].kind = "off"
    /\ enc.log[6].kind = "off"
    /\ trackEvents[6].status = 128

-----------------------------------------------------------------------------
(* Properties of the tempo estimators, checked under SpecConv *)

\* The onsets that bound an inter-onset interval inside (0.2 s, upper s).
usableOnsets(onsetSeq, rate, upper) ==
    LET survives(d) == rate > 0 /\ 5 * d > rate /\ d < upper * rate
    IN  {k \in 1..Len(onsetSeq) :
            \/ k > 1 /\ survives(onsetSeq[k] - onsetSeq[k - 1])
            \/ k < Len(onsetSeq) /\ survives(onsetSeq[k + 1] - onsetSeq[k])}

\* C23: with fewer than 3 usable onsets the tempo is the default 120; an onset
\* is usable when it bounds an inter-onset interval that passes the filter
\* (0.2 s to 3.0 s in calculateTempo, 0.2 s to 2.0 s in detectTempo).
C23_DefaultBelowThreeUsable ==
    /\ (variant = "worker" /\ tempo # 0
          /\ Cardinality(usableOnsets(onsets, sampleRate, 3)) < 3)
        => tempo = defaultTempo
    /\ (variant = "main" /\ tempo # 0
          /\ Cardinality(usableOnsets(fluxOnsets(spectralFluxOf(audioData, fluxSpikes)),
                                      sampleRate, 2)) < 3)
        => tempo = defaultTempo

-----------------------------------------------------------------------------
(* Properties of the chunked frame loop of detectPitchFromBuffer, under SpecConv *)

\* The frames the chunks up to chunk c analyse lie inside their own chunks.
insideOwnChunk ==
    \A i \in visited :
        \E c \in 0..(chunkCount - 1) :
            i >= chunkStart(audioData, c) /\ i < chunkEnd(audioData, c)

\* C26: the 20 chunks of the main thread's frame loop analyse between them
\* the frames of the un-chunked loop, 0, H, 2H, ... with start + W <= length:
\* none is skipped at a chunk boundary, and a buffer that holds one frame has
\* a frame analysed.
C26_ChunkedEqualsUnchunked ==
    (variant = "main" /\ frameLoopOver) =>
        /\ insideOwnChunk
        /\ \A s \in coveringFrames(bufferLength(audioData), mainWindowSize, mainHopSize) :
              s \in visited
        /\ \A s \in visited : s % mainHopSize = 0
        /\ (bufferLength(audioData) >= mainWindowSize => visited # {})

-----------------------------------------------------------------------------
(* Properties of the notes the worker returns, checked under SpecConv *)

\* Detections at pairwise distinct multiples of the hop, each one hop long.
hopDetections(ds) ==
    /\ \A k \in 1..Len(ds) :
          ds[k].time % workerHopSize = 0 /\ ds[k].duration = workerHopSize
    /\ Cardinality({ds[k].time : k \in 1..Len(ds)}) = Len(ds)

noOverlap(notes) ==
    \A k \in 1..(Len(notes) - 1) :
        notes[k].time + notes[k].duration <= notes[k + 1].time

\* C27: from detections at distinct multiples of the hop, one hop long each,
\* consolidateNotes returns notes that do not overlap: each ends at or before
\* the onset of the next.
C27_NoOverlap ==
    (variant = "worker" /\ hopDetections(detected)) =>
        /\ noOverlap(consState.consolidated)
        /\ noOverlap(convResult.notes)

\* Two notes returned, the first made of several detections and ending
\* exactly where the second begins.
C27_Witness ==
    /\ variant = "worker"
    /\ convPc = "done"
    /\ hopDetections(detected)
    /\ Len(convResult.notes) >= 2
    /\ convResult.notes[1].duration > workerHopSize
    /\ convResult.notes[1].time + convResult.notes[1].duration = convResult.notes[2].time

-----------------------------------------------------------------------------
(* Properties of the tick positions createMidiFile writes, under SpecMidi *)

\* The tick position of the k-th event written: the sum of the delta-times
\* up to and including it.
tickPosition(k) ==
    SeqSum([j \in 1..k |-> enc.log[j].delta])

\* C29: the sum of the delta-times written up to and including an event is
\* round(event time * ticksPerQuarter): tick positions do not drift.
C29_NoTickDrift ==
    \A k \in 1..Len(enc.log) :
        tickPosition(k) = MathRound(enc.log[k].time * ticksPerQuarter, UnitsPerSecond)

-----------------------------------------------------------------------------
(* Specification SpecUpload: one call of handleFileUpload on a page that may   *)
(* hold the result of an earlier upload.  The file is decoded or not; the      *)
(* conversion runs in the worker (processAudioWithWorker) or on the main       *)
(* thread (detectPitchFromBuffer); the result is stored or the error caught.   *)

\* A note kept from an earlier upload.
earlierNote == [time |-> 0, pitch |-> 60, duration |-> 4000, velocity |-> 90]

\* The page before the upload: as first rendered, or after an earlier upload.
PageStates ==
    {[midiData |-> <<>>, detectedTempo |-> defaultTempo, isProcessing |-> FALSE],
     [midiData |-> <<earlierNote>>, detectedTempo |-> 90, isProcessing |-> FALSE]}

\* The buffers decoded for a conversion on the main thread.
UploadBuffers ==
    {<<Sil(2048)>>, <<Tone(110000, 60, 440)>>}

\* catch and finally with the page put back to its first rendering.
afterFailure_reset(page) ==
    [midiData |-> <<>>, detectedTempo |-> defaultTempo, isProcessing |-> FALSE]

\* catch (error) { toast.error; console.error } finally { setIsProcessing(false) }
afterFailure(page) ==
    [page EXCEPT !.isProcessing = FALSE]

\* setDetectedTempo(result.tempo); setMidiData(result.notes); finally
\* setIsProcessing(false)
afterSuccess(page, result) ==
    [midiData |-> result.notes, detectedTempo |-> result.tempo, isProcessing |-> FALSE]

InitUpload ==
    /\ uploadPc = "start"
    /\ pageState \in PageStates
    /\ pageBefore = pageState
    /\ uploadOutcome = "none"
    /\ straddle \in {"none", "first"}
    /\ variant = "none"
    /\ audioData = <<>>
    /\ sampleRate = 1
    /\ fluxSpikes = <<>>
    /\ convPc = "idle"
    /\ frameI = 0
    /\ chunk = 0
    /\ detected = <<>>
    /\ onsets = <<>>
    /\ visited = {}
    /\ consState = accInit
    /\ consIdx = 0
    /\ tempo = 0
    /\ convResult = noResult
    /\ protoIdle
    /\ vlqIdle
    /\ midiIdle
    /\ yinIdle

\* setAudioFile(file); setIsProcessing(true); try { ... await file.arrayBuffer()
HandleFileUpload ==
    /\ uploadPc = "start"
    /\ pageState' = [pageState EXCEPT !.isProcessing = TRUE]
    /\ uploadPc' = "decoding"
    /\ UNCHANGED <<pageBefore, uploadOutcome, convVars, protoVars, vlqVars, midiVars, yinVars>>

\* file.arrayBuffer() or decodeAudioData rejects: catch, finally
UploadDecodeFails ==
    /\ uploadPc = "decoding"
    /\ pageState' = afterFailure(pageState)
    /\ uploadOutcome' = "failed"
    /\ uploadPc' = "done"
    /\ UNCHANGED <<pageBefore, convVars, protoVars, vlqVars, midiVars, yinVars>>

\* The file is decoded and processAudioWithWorker(buffer) is called: the
\* promise, the worker, its handlers, the request posted.
ProcessAudioWithWorker ==
    /\ uploadPc = "decoding"
    /\ request' \in WorkerRequests
    /\ workerInbox' = <<request'>>
    /\ promise' = [noPromise EXCEPT !.state = "pending"]
    /\ workerStatus' = "created"
    /\ uploadPc' = "awaiting"
    /\ UNCHANGED <<posted, callerInbox, settleCalls, pageState, pageBefore, uploadOutcome,
                   convVars, vlqVars, midiVars, yinVars>>

\* The file is decoded and detectPitchFromBuffer(buffer) is called.
DetectPitchFromBuffer ==
    /\ uploadPc = "decoding"
    /\ variant' = "main"
    /\ audioData' \in UploadBuffers
    /\ sampleRate' = 44100
    /\ convPc' = "tempo"
    /\ uploadPc' = "awaiting"
    /\ UNCHANGED <<straddle, fluxSpikes, frameI, chunk, detected, onsets, visited,
                   consState, consIdx, tempo, convResult, pageState, pageBefore,
                   uploadOutcome, protoVars, vlqVars, midiVars, yinVars>>

\* await processAudioWithWorker(buffer) resumes with the result
UploadWorkerResolved ==
    /\ uploadPc = "awaiting"
    /\ promise.state = "resolved"
    /\ pageState' = afterSuccess(pageState, promise.result)
    /\ uploadOutcome' = "succeeded"
    /\ uploadPc' = "done"
    /\ UNCHANGED <<pageBefore, convVars, protoVars, vlqVars, midiVars, yinVars>>

\* await processAudioWithWorker(buffer) throws: catch, finally
UploadWorkerRejected ==
    /\ uploadPc = "awaiting"
    /\ promise.state = "rejected"
    /\ pageState' = afterFailure(pageState)
    /\ uploadOutcome' = "failed"
    /\ uploadPc' = "done"
    /\ UNCHANGED <<pageBefore, convVars, protoVars, vlqVars, midiVars, yinVars>>

\* await detectPitchFromBuffer(buffer) resumes with the result
UploadMainReturned ==
    /\ uploadPc = "awaiting"
    /\ variant = "main"
    /\ convPc = "done"
    /\ pageState' = afterSuccess(pageState, convResult)
    /\ uploadOutcome' = "succeeded"
    /\ uploadPc' = "done"
    /\ UNCHANGED <<pageBefore, convVars, protoVars, vlqVars, midiVars, yinVars>>

NextUpload ==
    \/ HandleFileUpload
    \/ UploadDecodeFails
    \/ ProcessAudioWithWorker
    \/ DetectPitchFromBuffer
    \/ UploadWorkerResolved
    \/ UploadWorkerRejected
    \/ UploadMainReturned
    \/ WorkerOnMessage
    \/ WorkerFrame
    \/ WorkerThrow
    \/ WorkerCalculateTempo
    \/ WorkerReturnEmpty
    \/ WorkerConsolidateStart
    \/ WorkerConsolidateStep
    \/ WorkerReturn
    \/ WorkerPostSuccess
    \/ WorkerPostFailure
    \/ CallerOnMessage
    \/ CallerOnError
    \/ MainDetectTempo
    \/ MainFrame
    \/ MainChunkEnd
    \/ MainResume
    \/ MainConsolidateStart
    \/ MainConsolidateStep
    \/ MainReturn

SpecUpload ==
    InitUpload /\ [][NextUpload]_vars

\* C30: after a conversion that fails, midiData and detectedTempo are what
\* they were before the upload and isProcessing is false; isProcessing is
\* false after a conversion that succeeds too, and true only during one.
C30_FailureKeepsPage ==
    /\ uploadPc = "done" => ~pageState.isProcessing
    /\ (uploadPc = "done" /\ uploadOutcome = "failed") =>
          /\ pageState.midiData = pageBefore.midiData
          /\ pageState.detectedTempo = pageBefore.detectedTempo
    /\ uploadOutcome = "failed" =>
          \/ promise.state = "rejected"
          \/ promise.state = "none"
    /\ uploadOutcome = "succeeded" =>
          \/ promise.state = "resolved"
          \/ variant = "main" /\ convPc = "done"

\* The worker replied success: false, the promise was rejected, and the page
\* still shows the notes and the tempo of the earlier upload.
C30_Witness ==
    /\ uploadPc = "done"
    /\ uploadOutcome = "failed"
    /\ posted # <<>>
    /\ ~posted[1].success
    /\ promise.state = "rejected"
    /\ pageState.midiData = <<earlierNote>>
    /\ pageState.detectedTempo = 90

-----------------------------------------------------------------------------
(* Specification SpecYIN: one call of detectPitchYIN(buffer, sampleRate,       *)
(* minFreq, maxFreq) of the worker, one iteration of each of its three loops   *)
(* per step.  The numbers of yinBuffer are kept as exact fractions             *)
(* [num, den] with den >= 0: den = 0 is NaN (num = 0), Infinity (num = 1) or   *)
(* -Infinity (num = -1), as IEEE division gives them.  Every zero that is      *)
(* divided by here is a sum or a difference of non-negative numbers, so +0.    *)
(* A sample is an integer multiple of one unit of amplitude; the unit cancels  *)
(* in every value that is compared or returned.                                *)

minFreq == 80

maxFreq == 2000

\* const threshold = 0.1
threshold == [num |-> 1, den |-> 10]

RECURSIVE GCD(_, _)
GCD(a, b) ==
    IF b = 0 THEN a ELSE GCD(b, a % b)

Sign(n) ==
    IF n > 0 THEN 1 ELSE IF n < 0 THEN -1 ELSE 0

\* The number n/d for d >= 0, in lowest terms.
Q(n, d) ==
    IF d = 0 THEN [num |-> Sign(n), den |-> 0]
    ELSE LET g == GCD(Abs(n), d) IN [num |-> n \div g, den |-> d \div g]

Num(n) == [num |-> n, den |-> 1]

NaN == [num |-> 0, den |-> 0]

isFinite(a) == a.den > 0

\* a * b
Times(a, b) ==
    Q(a.num * b.num, a.den * b.den)

\* a / b
Over(a, b) ==
    IF b.num < 0 THEN Q((-a.num) * b.den, a.den * (-b.num))
    ELSE Q(a.num * b.den, a.den * b.num)

\* a + b
Plus(a, b) ==
    IF a.den = 0 /\ b.den = 0 THEN (IF a = b THEN a ELSE NaN)
    ELSE Q(a.num * b.den + b.num * a.den, a.den * b.den)

\* a - b
Minus(a, b) ==
    Plus(a, [num |-> -b.num, den |-> b.den])

\* a < b, false when either is NaN
Less(a, b) ==
    /\ a # NaN
    /\ b # NaN
    /\ a.num * b.den < b.num * a.den

\* buffer[i], 0 where the frame holds no other sample
sampleAt(frame, i) ==
    IF i \in DOMAIN frame.samples THEN frame.samples[i] ELSE 0

\* The indices i of the inner loop at which buffer[i] or buffer[i + tau] is
\* not 0; every other index adds 0 to the sum.
loudPairs(frame, tau) ==
    {i \in DOMAIN frame.samples \cup {j - tau : j \in DOMAIN frame.samples} :
        i >= 0 /\ i < frame.length - tau}

RECURSIVE sumDeltas(_, _, _)
sumDeltas(frame, tau, indices) ==
    IF indices = {} THEN 0
    ELSE LET i == CHOOSE x \in indices : TRUE
             delta == sampleAt(frame, i) - sampleAt(frame, i + tau)
         IN  delta * delta + sumDeltas(frame, tau, indices \ {i})

\* Step 1, the inner loop: the sum of (buffer[i] - buffer[i + tau])^2 over
\* 0 <= i < buffer.length - tau
squaredDifference(frame, tau) ==
    sumDeltas(frame, tau, loudPairs(frame, tau))

maxPeriodOf(rate) == rate \div minFreq

minPeriodOf(rate) == rate \div maxFreq

\* yinBuffer[tau] of the Float32Array, kept as a sequence from index 0
yinAt(buf, tau) == buf[tau + 1]

yinPut(buf, tau, value) == [buf EXCEPT ![tau + 1] = value]

\* 2 * s1 - s2 - s0
curvature(buf, tau) ==
    Minus(Minus(Times(Num(2), yinAt(buf, tau)), yinAt(buf, tau + 1)), yinAt(buf, tau - 1))

\* Parabolic interpolation: tau + (s2 - s0) / (2 * (2 * s1 - s2 - s0)) when
\* 0 < tau < maxPeriod, tau otherwise
betterTauOf(buf, tau, maxPeriod) ==
    IF tau > 0 /\ tau < maxPeriod
    THEN Plus(Num(tau),
              Over(Minus(yinAt(buf, tau + 1), yinAt(buf, tau - 1)),
                   Times(Num(2), curvature(buf, tau))))
    ELSE Num(tau)

\* sampleRate / betterTau is a number above 0
pitchAboveZero(rate, result) ==
    /\ result.kind = "value"
    /\ isFinite(result.betterTau)
    /\ rate * result.betterTau.num > 0

\* One click at the first sample of a 1024-sample window.
clickFrame == [length |-> 1024, samples |-> (0 :> 1)]

\* A click every 50 samples of a 1024-sample window.
clickTrainFrame == [length |-> 1024, samples |-> [i \in {50 * k : k \in 0..20} |-> 1]]

\* Five samples whose three values around lag 4 lie on a line.
flatFrame == [length |-> 5, samples |-> (0 :> 0 @@ 1 :> -5 @@ 2 :> -29 @@ 3 :> 4 @@ 4 :> 9)]

ShortLevels == {-1, 0, 1}

\* Every frame of five samples of ShortLevels.
ShortFrames ==
    {[length |-> 5, samples |-> s] : s \in [0..4 -> ShortLevels]}

\* The calls of detectPitchYIN that are followed.
YinCalls ==
    {[frame |-> clickFrame, rate |-> 96000],
     [frame |-> clickTrainFrame, rate |-> 8000],
     [frame |-> flatFrame, rate |-> 640],
     [frame |-> clickFrame, rate |-> -44100]}
    \cup {[frame |-> f, rate |-> r] : f \in ShortFrames, r \in {640, 4000}}

InitYIN ==
    /\ \E call \in YinCalls :
          /\ yinFrame = call.frame
          /\ yinRate = call.rate
    /\ yinPc = "allocate"
    /\ yinTau = 0
    /\ yinBuffer = <<>>
    /\ runningSum = 0
    /\ yinResult = [kind |-> "none"]
    /\ variant = "none"
    /\ straddle = "none"
    /\ audioData = <<>>
    /\ sampleRate = 1
    /\ fluxSpikes = <<>>
    /\ convPc = "idle"
    /\ frameI = 0
    /\ chunk = 0
    /\ detected = <<>>
    /\ onsets = <<>>
    /\ visited = {}
    /\ consState = accInit
    /\ consIdx = 0
    /\ tempo = 0
    /\ convResult = noResult
    /\ protoIdle
    /\ vlqIdle
    /\ midiIdle
    /\ uploadIdle

\* const yinBuffer = new Float32Array(maxPeriod + 1): every entry 0
YinAllocate ==
    /\ yinPc = "allocate"
    /\ maxPeriodOf(yinRate) + 1 >= 0
    /\ yinBuffer' = [k \in 1..(maxPeriodOf(yinRate) + 1) |-> Num(0)]
    /\ yinTau' = minPeriodOf(yinRate)
    /\ yinPc' = "difference"
    /\ UNCHANGED <<yinFrame, yinRate, runningSum, yinResult,
                   convVars, protoVars, vlqVars, midiVars, uploadVars>>

\* new Float32Array of a negative length throws a RangeError
YinThrow ==
    /\ yinPc = "allocate"
    /\ maxPeriodOf(yinRate) + 1 < 0
    /\ yinResult' = [kind |-> "throw"]
    /\ yinPc' = "threw"
    /\ UNCHANGED <<yinFrame, yinRate, yinTau, yinBuffer, runningSum,
                   convVars, protoVars, vlqVars, midiVars, uploadVars>>

\* Step 1, one tau of the outer loop
YinDifference ==
    /\ yinPc = "difference"
    /\ yinTau <= maxPeriodOf(yinRate)
    /\ yinBuffer' = yinPut(yinBuffer, yinTau, Num(squaredDifference(yinFrame, yinTau)))
    /\ yinTau' = yinTau + 1
    /\ UNCHANGED <<yinPc, yinFrame, yinRate, runningSum, yinResult,
                   convVars, protoVars, vlqVars, midiVars, uploadVars>>

\* Step 1 is over: yinBuffer[0] = 1; let runningSum = 0
YinDifferenceEnd ==
    /\ yinPc = "difference"
    /\ yinTau > maxPeriodOf(yinRate)
    /\ yinBuffer' = yinPut(yinBuffer, 0, Num(1))
    /\ runningSum' = Num(0)
    /\ yinTau' = 1
    /\ yinPc' = "normalize"
    /\ UNCHANGED <<yinFrame, yinRate, yinResult,
                   convVars, protoVars, vlqVars, midiVars, uploadVars>>

\* Step 2, one tau: runningSum += yinBuffer[tau]; yinBuffer[tau] *= tau / runningSum
YinNormalize ==
    /\ yinPc = "normalize"
    /\ yinTau <= maxPeriodOf(yinRate)
    /\ runningSum' = Plus(runningSum, yinAt(yinBuffer, yinTau))
    /\ yinBuffer' = yinPut(yinBuffer, yinTau,
                           Times(yinAt(yinBuffer, yinTau), Over(Num(yinTau), runningSum')))
    /\ yinTau' = yinTau + 1
    /\ UNCHANGED <<yinPc, yinFrame, yinRate, yinResult,
                   convVars, protoVars, vlqVars, midiVars, uploadVars>>

\* Step 2 is over: Step 3 starts at minPeriod
YinNormalizeEnd ==
    /\ yinPc = "normalize"
    /\ yinTau > maxPeriodOf(yinRate)
    /\ yinTau' = minPeriodOf(yinRate)
    /\ yinPc' = "threshold"
    /\ UNCHANGED <<yinFrame, yinRate, yinBuffer, runningSum, yinResult,
                   convVars, protoVars, vlqVars, midiVars, uploadVars>>

\* Step 3, a tau whose value is not below the threshold
YinThresholdSkip ==
    /\ yinPc = "threshold"
    /\ yinTau <= maxPeriodOf(yinRate)
    /\ ~Less(yinAt(yinBuffer, yinTau), threshold)
    /\ yinTau' = yinTau + 1
    /\ UNCHANGED <<yinPc, yinFrame, yinRate, yinBuffer, runningSum, yinResult,
                   convVars, protoVars, vlqVars, midiVars, uploadVars>>

\* Step 3, the first tau whose value is below the threshold:
\* return sampleRate / betterTau
YinThresholdReturn ==
    /\ yinPc = "threshold"
    /\ yinTau <= maxPeriodOf(yinRate)
    /\ Less(yinAt(yinBuffer, yinTau), threshold)
    /\ yinResult' = [kind |-> "value", tau |-> yinTau,
                     betterTau |-> betterTauOf(yinBuffer, yinTau, maxPeriodOf(yinRate))]
    /\ yinPc' = "done"
    /\ UNCHANGED <<yinFrame, yinRate, yinTau, yinBuffer, runningSum,
                   convVars, protoVars, vlqVars, midiVars, uploadVars>>

\* Step 3 found no tau: return 0
YinReturnZero ==
    /\ yinPc = "threshold"
    /\ yinTau > maxPeriodOf(yinRate)
    /\ yinResult' = [kind |-> "zero"]
    /\ yinPc' = "done"
    /\ UNCHANGED <<yinFrame, yinRate, yinTau, yinBuffer, runningSum,
                   convVars, protoVars, vlqVars, midiVars, uploadVars>>

NextYIN ==
    \/ YinAllocate
    \/ YinThrow
    \/ YinDifference
    \/ YinDifferenceEnd
    \/ YinNormalize
    \/ YinNormalizeEnd
    \/ YinThresholdSkip
    \/ YinThresholdReturn
    \/ YinReturnZero

SpecYIN ==
    InitYIN /\ [][NextYIN]_vars

\* The sum of d(k) over lo <= k <= hi, by halves.
RECURSIVE sumDifferences(_, _, _)
sumDifferences(frame, lo, hi) ==
    IF lo > hi THEN 0
    ELSE IF lo = hi THEN squaredDifference(frame, lo)
    ELSE LET mid == (lo + hi) \div 2
         IN  sumDifferences(frame, lo, mid) + sumDifferences(frame, mid + 1, hi)

\* d'(tau) = d(tau) * tau / (d(1) + ... + d(tau)), d'(0) = 1
cumulativeMeanNormalized(frame, tau) ==
    IF tau = 0 THEN Num(1)
    ELSE Over(Num(squaredDifference(frame, tau) * tau), Num(sumDifferences(frame, 1, tau)))

\* C24: once Step 2 is over, for every lag tau of the search range
\* floor(sampleRate / maxFreq) .. floor(sampleRate / minFreq) the value that
\* Step 3 compares with the threshold is d(tau) * tau divided by the sum of
\* d(k) over every k from 1 to tau.
C24_NormalizedValue ==
    yinPc \in {"threshold", "done"} =>
        \A tau \in minPeriodOf(yinRate)..maxPeriodOf(yinRate) :
            yinAt(yinBuffer, tau) = cumulativeMeanNormalized(yinFrame, tau)

\* C25: when the three values around the selected lag have zero curvature,
\* no division by zero is made and the period returned is the unrefined tau,
\* so the pitch is the finite sampleRate / tau.
C25_FlatCurvatureGuarded ==
    (/\ yinPc = "done"
     /\ yinResult.kind = "value"
     /\ yinResult.tau > 0
     /\ yinResult.tau < maxPeriodOf(yinRate)
     /\ curvature(yinBuffer, yinResult.tau) = Num(0))
    => yinResult.betterTau = Num(yinResult.tau)

\* C28: a pitch is reported only for a lag smaller than the frame length; a
\* lag whose squared-difference sum ranges over no sample pair is never the
\* period, whatever the sample rate.
C28_LagInsideFrame ==
    (yinPc = "done" /\ pitchAboveZero(yinRate, yinResult))
    => yinResult.tau < yinFrame.length

====
